---- MODULE Spec2Model ----
(***************************************************************************)
(* A model of the guestspost backend's order service (order.service.ts)    *)
(* and message service (message.service.ts): the documents they keep in    *)
(* the database, the requests in flight (each await is a separate step),   *)
(* and the notification e-mails they attempt.                              *)
(***************************************************************************)
EXTENDS Integers, Sequences, FiniteSets, TLC

VARIABLES
    orders,          \* the Order collection: order id -> document, or NoOrder
    nextOrderId,     \* the next _id the database hands out (ids are never reused)
    lastCreate,      \* the last createOrder call: its input and its outcome
    req,             \* the updateOrder / completeOrder / deleteOrder call of each request slot
    started,         \* number of service calls started so far
    confirmAttempts, \* per order: payment-confirmation e-mails attempted
    paidChanges,     \* per order: times the persisted status went pending -> processing
    stats,           \* the getOrderStats call in flight (its six queries) and its result
    threads,         \* the Message collection: commentId -> thread document, or NoThread
    mreq,            \* the addMessageToThread call of each request slot
    addsDone,        \* per thread: addMessageToThread calls that have completed
    createdLen,      \* per thread: length of its content when it was created
    conns,           \* the GET /messages/stream connections
    clock,           \* wall-clock time, in steps of 5 s
    subs,            \* the SiteSubmission collection: id -> document, or NoSub
    nextSubId,       \* the next _id of a site submission
    lastSubmit,      \* the last POST /site-submissions: its body and its outcome
    sreq,            \* the updateSiteSubmission call of each request slot
    del,             \* the deleteSiteSubmission call in flight, or the last one
    pay,             \* the payment-service call in flight, or the last one
    fsys,            \* the regular files under the upload root
    freq,            \* the GET /files/:filePath request in flight, or the last one
    accounts,        \* the User collection as the auth service reads and writes it
    areq,            \* the auth-service call in flight, or the last one
    nextToken,       \* the next password-reset token to be generated
    consumed,        \* the reset tokens that a successful resetPassword has used
    gate,            \* per request slot: the credentials of the request whose call it holds
    http,            \* the last request to a guarded order route: credentials and answer
    listing          \* the getOrders call in flight, or the last one, and its result

routeVars == <<gate, http>>
orderVars == <<orders, nextOrderId, lastCreate, req, confirmAttempts, paidChanges, stats,
              routeVars>>
msgVars == <<threads, mreq, addsDone, createdLen>>
streamVars == <<conns, clock>>
subVars == <<subs, nextSubId, lastSubmit, sreq, del>>
coreVars == <<orderVars, msgVars, streamVars, subVars>>

\* what the calls of one service leave alone
payVars == <<pay>>
fileVars == <<fsys, freq>>
authVars == <<accounts, areq, nextToken, consumed>>
listVars == <<listing>>
auxVars == <<payVars, fileVars, authVars, listVars>>

\* what the calls of one service leave alone
nonOrderVars == <<msgVars, streamVars, subVars, auxVars>>
nonMsgVars == <<orderVars, streamVars, subVars, auxVars>>
nonStreamVars == <<orderVars, msgVars, subVars, auxVars>>
nonSubVars == <<orderVars, msgVars, streamVars, auxVars>>
nonPayVars == <<coreVars, fileVars, authVars, listVars>>
nonFileVars == <<coreVars, payVars, authVars, listVars>>
nonAuthVars == <<coreVars, payVars, fileVars, listVars>>
nonListVars == <<coreVars, payVars, fileVars, authVars>>

vars == <<orders, nextOrderId, lastCreate, req, started,
          confirmAttempts, paidChanges, stats, routeVars, msgVars, streamVars, subVars, auxVars>>

(***************************************************************************)
(* Bounds of the model.                                                    *)
(***************************************************************************)
MaxOrders == 2
MaxOps == 3
NumSlots == 2

OrderIds == 1..MaxOrders
Slots == 1..NumSlots

(***************************************************************************)
(* Values.  A request carries strings; the database stores ObjectIds.      *)
(* Mongoose casts a string to an ObjectId in find/count/update filters,    *)
(* and fails the query (CastError) when the string has not the ObjectId    *)
(* shape; it does not cast the stages of an aggregate pipeline.            *)
(***************************************************************************)
Str(s) == [t |-> "string", v |-> s]
Oid(s) == [t |-> "ObjectId", v |-> s]

\* /^[0-9a-fA-F]{24}$/ : the strings of the model that have the ObjectId shape
ObjectIdStrings == {"id1", "id2", "id9"}
IsObjectIdString(s) == s \in ObjectIdStrings

\* String.prototype.toLowerCase on the e-mail strings of the model
ToLowerCase(s) ==
    CASE s = "ANN@X.COM" -> "ann@x.com"
      [] s = "Bob@x.com" -> "bob@x.com"
      [] OTHER -> s

\* String.prototype.trim
Trim(s) == IF s = " " THEN "" ELSE s

\* new Date(): the clock advances by one with every call that starts
now == started

Statuses == {"pending", "processing", "completed", "failed"}

\* The User collection (no operation of the order service writes it).
Users == { [_id |-> Oid("id1"), user_email |-> "ann@x.com"],
           [_id |-> Oid("id2"), user_email |-> "bob@x.com"] }
NoUser == [none |-> TRUE]
NoOrder == [none |-> TRUE]

\* User.findById(id) / User.findOne({user_email}) : the document or null
FindUserById(s) ==
    IF \E u \in Users : u._id = Oid(s)
    THEN CHOOSE u \in Users : u._id = Oid(s) ELSE NoUser
FindUserByEmail(e) ==
    IF \E u \in Users : u.user_email = e
    THEN CHOOSE u \in Users : u.user_email = e ELSE NoUser

\* The six queries of getOrderStats, and the call when none is in flight
StatsQueries == {"total", "pending", "processing", "completed", "failed", "revenue"}
NoResult == [q \in StatsQueries |-> 0]
NoStats == [pc |-> "idle", userId |-> "", left |-> {}, res |-> NoResult,
            quiet |-> FALSE, code |-> 0]

\* Any step of another call, while a getOrderStats call runs or holds its
\* result, ends the quiet the call was made in.
Disturbed == IF stats.pc = "idle" THEN stats ELSE [stats EXCEPT !.quiet = FALSE]

(***************************************************************************)
(* createOrder                                                             *)
(***************************************************************************)
\* User.findOne({$or: [{user_email: lower(user_id)}, {_id: user_id}]}):
\* the filter is cast before it is sent, so a user_id that has not the
\* ObjectId shape makes the query throw; "CastError" stands for that.
CastError == [castError |-> TRUE]
FindUserByUserIdField(s) ==
    IF ~IsObjectIdString(s) THEN CastError
    ELSE IF FindUserByEmail(ToLowerCase(s)) # NoUser THEN FindUserByEmail(ToLowerCase(s))
    ELSE FindUserById(s)

\* lines 71-90: by userId when it has the ObjectId shape, else by userEmail,
\* else by user_id
ResolveUser(data) ==
    LET byId == IF data.userId # "" /\ IsObjectIdString(data.userId)
                THEN FindUserById(data.userId) ELSE NoUser
        byEmail == IF byId = NoUser /\ data.userEmail # ""
                   THEN FindUserByEmail(ToLowerCase(data.userEmail)) ELSE byId
    IN  IF byEmail = NoUser /\ data.user_id # ""
        THEN FindUserByUserIdField(data.user_id) ELSE byEmail

\* data.price || data.amount || 0   (an absent number is 0 here: both are falsy)
OrderAmount(data) ==
    IF data.price # 0 THEN data.price ELSE IF data.amount # 0 THEN data.amount ELSE 0

\* data.type || "service"
OrderType(data) == IF data.type # "" THEN data.type ELSE "service"

\* status: "pending" of the saved document, whatever the input carries
NewOrderStatusFromInput(data) == IF data.status # "none" THEN data.status ELSE "pending"
NewOrderStatus(data) == "pending"

\* lines 122-132: the document handed to new Order(...)
OrderDataToSave(data, user) ==
    [ userId |-> user._id,
      userEmail |-> ToLowerCase(IF data.userEmail # "" THEN data.userEmail ELSE user.user_email),
      price |-> OrderAmount(data),
      status |-> NewOrderStatus(data),
      message |-> "none",
      completionMessage |-> "none",
      completionLink |-> "none",
      completedAt |-> -1,
      updatedAt |-> now ]

\* The outcome of createOrder(data): the HTTP status of the AppError thrown, or 201
CreateOutcome(data) ==
    LET user == ResolveUser(data) IN
    IF user = CastError THEN 500
    ELSE IF user = NoUser THEN 404
    ELSE IF OrderAmount(data) <= 0 THEN 400
    ELSE IF Trim(data.item_name) = "" THEN 400
    ELSE IF Trim(OrderType(data)) = "" THEN 400
    ELSE 201

NoCreate == [data |-> [none |-> TRUE], code |-> 0, id |-> 0, ret |-> NoOrder]

CreateOrder(data) ==
    /\ started < MaxOps
    /\ nextOrderId <= MaxOrders
    /\ started' = started + 1
    /\ IF CreateOutcome(data) = 201
       THEN LET doc == OrderDataToSave(data, ResolveUser(data)) IN
            /\ orders' = [orders EXCEPT ![nextOrderId] = doc]
            /\ nextOrderId' = nextOrderId + 1
            /\ lastCreate' = [data |-> data, code |-> 201, id |-> nextOrderId, ret |-> doc]
       ELSE /\ lastCreate' = [data |-> data, code |-> CreateOutcome(data), id |-> 0, ret |-> NoOrder]
            /\ UNCHANGED <<orders, nextOrderId>>
    /\ stats' = Disturbed
    /\ UNCHANGED nonOrderVars
    /\ UNCHANGED <<req, confirmAttempts, paidChanges>>

\* The inputs createOrder is tried on: every way of naming the user with a
\* sound rest, and every amount, item name and type with a sound user.
CreateInputs ==
    [ userId : {"", "id1", "id9", "ann@x.com"},
      userEmail : {"", "ANN@X.COM", "nobody@x.com"},
      user_id : {"", "Bob@x.com", "nobody@x.com", "id2"},
      price : {5},
      amount : {0},
      item_name : {"post"},
      type : {"article"},
      status : {"none", "completed"} ]
    \cup
    [ userId : {"id1"},
      userEmail : {""},
      user_id : {""},
      price : {-1, 0, 5},
      amount : {0, 3},
      item_name : {"", "post"},
      type : {"", " "},
      status : {"none", "processing"} ]

\* The well-formed inputs of the concurrent specification.
ValidCreateInputs ==
    [ userId : {"id1", "id2"},
      userEmail : {""},
      user_id : {""},
      price : {5},
      amount : {0},
      item_name : {"post"},
      type : {"article"},
      status : {"none"} ]

(***************************************************************************)
(* updateOrder, completeOrder, deleteOrder                                 *)
(***************************************************************************)
NoPatch == [status |-> "none", message |-> "none"]
NoArgs == [message |-> "none", link |-> "none"]
\* A call: its arguments, the status it read or replaced (prev), the e-mail it
\* chose (kind), the sends it made and how the send ended, the HTTP status of
\* its outcome (0 while it runs) and the document it returns.
NoReq == [ op |-> "none", pc |-> "idle", id |-> 0, patch |-> NoPatch, args |-> NoArgs,
           prev |-> "none", kind |-> "none", attempts |-> 0, outcome |-> "none",
           code |-> 0, ret |-> NoOrder ]

\* The request bodies PUT /orders/:id lets through (updateOrderValidation):
\* an optional status among the four, and other optional fields.
Patches == [status : Statuses \cup {"none"}, message : {"none", "late"}]

\* The (completionMessage, completionLink) pairs of completeOrder; "none" is undefined
CompletionArgs == { NoArgs, [message |-> "done", link |-> "http://l"] }

\* A new call takes the first slot that holds no call, or a finished one.
Free(p) ==
    /\ req[p].pc \in {"idle", "done"}
    /\ \A q \in Slots : q < p => req[q].pc \notin {"idle", "done"}

\* findByIdAndUpdate(id, {...data, updatedAt: new Date()}, {new: true}):
\* the fields the patch carries are set, the others are kept
ApplyPatchDefaultStatus(doc, patch) ==
    [doc EXCEPT !.status = IF patch.status # "none" THEN patch.status ELSE "pending",
                !.message = IF patch.message # "none" THEN patch.message ELSE @,
                !.updatedAt = now]
ApplyPatch(doc, patch) ==
    [doc EXCEPT !.status = IF patch.status # "none" THEN patch.status ELSE @,
                !.message = IF patch.message # "none" THEN patch.message ELSE @,
                !.updatedAt = now]

\* lines 285-339: which e-mail updateOrder sends for (previousStatus, newStatus)
NotifyRuleNoPriorCheck(prev, new) ==
    IF new = prev THEN "none"
    ELSE IF new = "processing" THEN "confirmation"
    ELSE IF new = "completed" THEN "completion"
    ELSE IF new = "failed" THEN "statusUpdate"
    ELSE "none"
NotifyRule(prev, new) ==
    IF new = prev THEN "none"
    ELSE IF prev = "pending" /\ new = "processing" THEN "confirmation"
    ELSE IF new = "completed" THEN "completion"
    ELSE IF new = "failed" \/ (new = "processing" /\ prev # "pending") THEN "statusUpdate"
    ELSE "none"

\* What a send can do: deliver, report failure (sendEmail returns false), or throw
EmailOutcomes == {"sent", "failed", "threw"}

\* lines 340-346 and 416-422: the catch around the send; the call goes on to return the order
CodeAfterSendUncaught(outcome) == IF outcome = "threw" THEN 500 ELSE 200
CodeAfterSend(outcome) == 200

\* line 264: Order.findById(id), and the 404 when there is none
UpdateRead(p, id, patch) ==
    /\ Free(p)
    /\ started < MaxOps
    /\ started' = started + 1
    /\ req' = [req EXCEPT ![p] =
         IF orders[id] = NoOrder
         THEN [NoReq EXCEPT !.op = "updateOrder", !.pc = "done", !.id = id,
                            !.patch = patch, !.code = 404]
         ELSE [NoReq EXCEPT !.op = "updateOrder", !.pc = "write", !.id = id,
                            !.patch = patch, !.prev = orders[id].status]]
    /\ stats' = Disturbed
    /\ UNCHANGED nonOrderVars
    /\ UNCHANGED <<orders, nextOrderId, lastCreate, confirmAttempts, paidChanges>>

\* lines 272-285: Order.findByIdAndUpdate, the 404 when the order is gone,
\* and the choice of the notification
UpdateWrite(p) ==
    /\ req[p].op = "updateOrder"
    /\ req[p].pc = "write"
    /\ LET id == req[p].id IN
       IF orders[id] = NoOrder
       THEN /\ req' = [req EXCEPT ![p].pc = "done", ![p].code = 404]
            /\ UNCHANGED <<orders, paidChanges>>
       ELSE LET doc == ApplyPatch(orders[id], req[p].patch)
                kind == NotifyRule(req[p].prev, doc.status)
            IN  /\ orders' = [orders EXCEPT ![id] = doc]
                /\ paidChanges' = [paidChanges EXCEPT ![id] =
                       IF orders[id].status = "pending" /\ doc.status = "processing"
                       THEN @ + 1 ELSE @]
                /\ req' = [req EXCEPT ![p].ret = doc, ![p].kind = kind, ![p].patch = NoPatch,
                                      ![p].pc = IF kind = "none" THEN "done" ELSE "email",
                                      ![p].code = IF kind = "none" THEN 200 ELSE 0]
    /\ stats' = Disturbed
    /\ UNCHANGED nonOrderVars
    /\ UNCHANGED <<nextOrderId, lastCreate, started, confirmAttempts>>

\* lines 385-395: the update of completeOrder; an undefined argument sets nothing
CompleteUpdateNoLink(doc, args) ==
    [doc EXCEPT !.status = "completed",
                !.completionMessage = IF args.message # "none" THEN args.message ELSE @,
                !.completedAt = now,
                !.updatedAt = now]
CompleteUpdate(doc, args) ==
    [doc EXCEPT !.status = "completed",
                !.completionMessage = IF args.message # "none" THEN args.message ELSE @,
                !.completionLink = IF args.link # "none" THEN args.link ELSE @,
                !.completedAt = now,
                !.updatedAt = now]

\* lines 385-399: Order.findByIdAndUpdate of completeOrder, and its 404
CompleteWrite(p, id, args) ==
    /\ Free(p)
    /\ started < MaxOps
    /\ started' = started + 1
    /\ IF orders[id] = NoOrder
       THEN /\ req' = [req EXCEPT ![p] =
                 [NoReq EXCEPT !.op = "completeOrder", !.pc = "done", !.id = id,
                               !.args = args, !.code = 404]]
            /\ UNCHANGED orders
       ELSE LET doc == CompleteUpdate(orders[id], args)
            IN  /\ orders' = [orders EXCEPT ![id] = doc]
                /\ req' = [req EXCEPT ![p] =
                     [NoReq EXCEPT !.op = "completeOrder", !.pc = "email", !.id = id,
                                   !.args = args, !.prev = orders[id].status,
                                   !.kind = "completion", !.ret = doc]]
    /\ stats' = Disturbed
    /\ UNCHANGED nonOrderVars
    /\ UNCHANGED <<nextOrderId, lastCreate, confirmAttempts, paidChanges>>

\* lines 286-347 and 402-422: the one send of the call, inside its try/catch
SendEmail(p) ==
    /\ req[p].pc = "email"
    /\ \E outcome \in EmailOutcomes :
         req' = [req EXCEPT ![p].pc = "done", ![p].outcome = outcome,
                            ![p].attempts = @ + 1,
                            ![p].code = CodeAfterSend(outcome)]
    /\ confirmAttempts' = [confirmAttempts EXCEPT ![req[p].id] =
           IF req[p].kind = "confirmation" THEN @ + 1 ELSE @]
    /\ stats' = Disturbed
    /\ UNCHANGED nonOrderVars
    /\ UNCHANGED <<orders, nextOrderId, lastCreate, started, paidChanges>>

\* lines 361-374: Order.findByIdAndDelete
DeleteOrder(id) ==
    /\ started < MaxOps
    /\ started' = started + 1
    /\ orders' = [orders EXCEPT ![id] = NoOrder]
    /\ stats' = Disturbed
    /\ UNCHANGED nonOrderVars
    /\ UNCHANGED <<nextOrderId, lastCreate, req, confirmAttempts, paidChanges>>

(***************************************************************************)
(* getOrderStats                                                           *)
(***************************************************************************)
RECURSIVE SumPrices(_)
SumPrices(docs) ==
    IF docs = {} THEN 0
    ELSE LET i == CHOOSE i \in docs : TRUE IN orders[i].price + SumPrices(docs \ {i})

\* Order.countDocuments({userId, status}): the userId string is cast to an
\* ObjectId; status "" stands for no status condition
CountDocuments(userId, status) ==
    Cardinality({ i \in OrderIds :
        /\ orders[i] # NoOrder
        /\ userId = "" \/ orders[i].userId = Oid(userId)
        /\ status = "" \/ orders[i].status = status })

\* Order.aggregate([{$match: query}, {$group: {totalRevenue: {$sum: "$price"}}}]):
\* the pipeline is sent as written, the userId of the query stays a string;
\* revenueData[0]?.totalRevenue || 0
Matched(userId) ==
    { i \in OrderIds : orders[i] # NoOrder /\ (userId = "" \/ orders[i].userId = Str(userId)) }
TotalRevenue(userId) == SumPrices(Matched(userId))

\* lines 450-464: the answer of one of the six queries of the Promise.all
Answer(q, userId) ==
    CASE q = "total" -> CountDocuments(userId, "")
      [] q = "revenue" -> TotalRevenue(userId)
      [] OTHER -> CountDocuments(userId, q)

StatsUserIds == {"", "id1", "id2", "ann@x.com"}

\* line 446-449: the six queries are issued together; a userId that cannot be
\* cast fails the counts, and the call with them (lines 479-482)
StatsStart(userId) ==
    /\ stats.pc = "idle"
    /\ started < MaxOps
    /\ started' = started + 1
    /\ stats' = IF userId # "" /\ ~IsObjectIdString(userId)
                THEN [NoStats EXCEPT !.pc = "done", !.userId = userId, !.code = 500]
                ELSE [NoStats EXCEPT !.pc = "run", !.userId = userId, !.left = StatsQueries,
                                     !.quiet = \A p \in Slots : req[p].pc \in {"idle", "done"}]
    /\ UNCHANGED <<orders, nextOrderId, lastCreate, req, confirmAttempts, paidChanges>>
    /\ UNCHANGED nonOrderVars

\* the database answers the queries one at a time, in any order
StatsQuery(q) ==
    /\ stats.pc = "run"
    /\ q \in stats.left
    /\ stats' = [stats EXCEPT !.res[q] = Answer(q, stats.userId),
                              !.left = @ \ {q},
                              !.pc = IF stats.left = {q} THEN "done" ELSE "run",
                              !.code = IF stats.left = {q} THEN 200 ELSE 0]
    /\ UNCHANGED <<orders, nextOrderId, lastCreate, req, started,
                   confirmAttempts, paidChanges>>
    /\ UNCHANGED nonOrderVars

(***************************************************************************)
(* The message service: createMessage, addMessageToThread                  *)
(***************************************************************************)
CommentIds == {"c1", "c2"}
\* The look-back window of the stream's poll: 10 s; the clock counts in
\* steps of 5 s
Window == 2

\* A content entry (MessageContent): its text and the time its sender gave
\* it, which is the time of the request or any earlier time (0 is long ago).
NoEntry == [text |-> "", time |-> 0]
Entries == [text : {"hello", "reply"}, time : {0, clock}]
NoThread == [none |-> TRUE]
NoMreq == [pc |-> "idle", commentId |-> "", entry |-> NoEntry, date |-> 0, code |-> 0]

\* The documents createMessage is given: content ("messageData.content || []"),
\* the approved flag (0 is unread) and the owner; the date is the time of the call.
MessageData ==
    [ commentId : CommentIds,
      userEmail : {"ann@x.com", "bob@x.com"},
      content : {<<>>, <<[text |-> "first", time |-> 0]>>},
      approved : {0, 1} ]

\* lines 12-15: new Message(messageData).save(), for a commentId not in use
CreateMessage(data) ==
    /\ started < MaxOps
    /\ threads[data.commentId] = NoThread
    /\ started' = started + 1
    /\ threads' = [threads EXCEPT ![data.commentId] =
           [userEmail |-> data.userEmail, content |-> data.content,
            approved |-> data.approved, date |-> now]]
    /\ createdLen' = [createdLen EXCEPT ![data.commentId] = Len(data.content)]
    /\ UNCHANGED <<mreq, addsDone>>
    /\ UNCHANGED nonMsgVars

MFree(p) ==
    /\ mreq[p].pc \in {"idle", "done"}
    /\ \A q \in Slots : q < p => mreq[q].pc \notin {"idle", "done"}

\* lines 31-36: Message.findOne({commentId}); null when there is none (the
\* controller answers 200 with null); else
\* the entry is pushed on the loaded document and its date set to new Date()
AddFind(p, c, entry) ==
    /\ MFree(p)
    /\ started < MaxOps
    /\ started' = started + 1
    /\ mreq' = [mreq EXCEPT ![p] =
         IF threads[c] = NoThread
         THEN [NoMreq EXCEPT !.pc = "done", !.commentId = c, !.entry = entry, !.code = 200]
         ELSE [NoMreq EXCEPT !.pc = "save", !.commentId = c, !.entry = entry, !.date = now]]
    /\ UNCHANGED <<threads, addsDone, createdLen>>
    /\ UNCHANGED nonMsgVars

\* line 39: message.save().  Mongoose sends the changes of the document, not
\* the document: the push as $push of the new entry, date and approved as $set.
SavedThread(doc, entry, date) ==
    [doc EXCEPT !.content = Append(@, entry), !.date = date, !.approved = 1]

AddSave(p) ==
    /\ mreq[p].pc = "save"
    /\ LET c == mreq[p].commentId IN
       /\ threads' = [threads EXCEPT ![c] = SavedThread(@, mreq[p].entry, mreq[p].date)]
       /\ addsDone' = [addsDone EXCEPT ![c] = @ + 1]
    /\ mreq' = [mreq EXCEPT ![p].pc = "done", ![p].code = 200]
    /\ UNCHANGED <<started, createdLen>>
    /\ UNCHANGED nonMsgVars

\* The bodies of PUT /messages/:id: the update is handed to findOneAndUpdate
\* as it came, so it sets whatever fields it names, content included.
UpdateData ==
    { [hasContent |-> FALSE, content |-> <<>>, approved |-> 1] }
    \cup [ hasContent : {TRUE},
           content : {<<>>, <<[text |-> "edited", time |-> 0]>>},
           approved : {0, 1} ]

\* message.service.ts lines 17-25: findOneAndUpdate({commentId}, updateData)
ApplyUpdate(doc, data) ==
    [doc EXCEPT !.content = IF data.hasContent THEN data.content ELSE @,
                !.approved = data.approved]

\* The controller of PUT /messages/:id: only the owner of the thread may
\* update it (403 otherwise), then MessageService.updateMessage
UpdateMessage(c, userEmail, data) ==
    /\ started < MaxOps
    /\ started' = started + 1
    /\ threads' = IF threads[c] = NoThread \/ threads[c].userEmail # userEmail
                  THEN threads
                  ELSE [threads EXCEPT ![c] = ApplyUpdate(@, data)]
    /\ UNCHANGED <<mreq, addsDone, createdLen>>
    /\ UNCHANGED nonMsgVars

(***************************************************************************)
(* The message stream (GET /messages/stream)                               *)
(***************************************************************************)
NumConns == 2
ConnIds == 1..NumConns
MaxTime == 4

\* A request: the token of its Authorization header, the token and the lastId
\* of its query ("" is absent; "tokA" is a valid access token of ann@x.com)
NoRequest == [header |-> "", token |-> "", lastId |-> ""]
StreamRequests ==
    [header : {""}, token : {"tokA"}, lastId : {"", "17"}]
    \cup { [header |-> "tokA", token |-> "", lastId |-> ""],
           [header |-> "", token |-> "bad", lastId |-> "17"] }

\* A connection: its request, whether it was accepted, its user and whether it
\* gave a lastId cursor, its polling timer (whether it is set, how many were
\* started, whether it fired in this interval, the poll in flight), and what
\* has been written to it: the first event, the connected and error events,
\* the events of the last poll, all entries pushed so far, and
\* whether something was written after its end.
NoConn == [ request |-> NoRequest, state |-> "none", user |-> "", cursor |-> FALSE,
            timer |-> FALSE, timersStarted |-> 0, fired |-> FALSE, poll |-> "idle",
            first |-> "none", acks |-> 0, errors |-> 0,
            batch |-> <<>>, pollOk |-> FALSE, pushed |-> {}, late |-> FALSE ]

\* req.user: the route GET /messages/stream is mounted with no middleware
\* before messageStream, so no user comes with the request
MiddlewareUser(request) == ""

\* lines 153-165: verifyAccessToken(token) of the query; a token that does
\* not verify throws, and the throw is swallowed
QueryTokenUser(token) ==
    IF token = "tokA" THEN "ann@x.com" ELSE IF token = "tokB" THEN "bob@x.com" ELSE ""

\* lines 148-166
StreamUser(request) ==
    IF MiddlewareUser(request) # "" THEN MiddlewareUser(request)
    ELSE QueryTokenUser(request.token)

\* lines 168-172: one Unauthorized error event, and the end of the response
RejectedWithTimer(request) ==
    [NoConn EXCEPT !.request = request, !.state = "rejected", !.first = "error", !.errors = 1,
                   !.timer = TRUE, !.timersStarted = 1]
Rejected(request) ==
    [NoConn EXCEPT !.request = request, !.state = "rejected", !.first = "error", !.errors = 1]

\* lines 174-223: the connected event, then the timer and the close handler
AcceptedWithoutAck(request, user) ==
    [NoConn EXCEPT !.request = request, !.state = "open", !.user = user,
                   !.cursor = (request.lastId # ""),
                   !.timer = TRUE, !.timersStarted = 1]
Accepted(request, user) ==
    [NoConn EXCEPT !.request = request, !.state = "open", !.user = user,
                   !.cursor = (request.lastId # ""),
                   !.first = "connected", !.acks = 1,
                   !.timer = TRUE, !.timersStarted = 1]

\* A new connection takes the first id not yet used.
Connect(k, request) ==
    /\ conns[k].state = "none"
    /\ \A j \in ConnIds : j < k => conns[j].state # "none"
    /\ conns' = [conns EXCEPT ![k] =
         IF StreamUser(request) = "" THEN Rejected(request)
         ELSE Accepted(request, StreamUser(request))]
    /\ UNCHANGED <<clock, started, nonStreamVars>>

\* lines 220-223: req.on("close"): clearInterval(pollInterval); res.end()
ClosedKeepingTimer(conn) == [conn EXCEPT !.state = "closed"]
Closed(conn) == [conn EXCEPT !.state = "closed", !.timer = FALSE]

Close(k) ==
    /\ conns[k].state = "open"
    /\ conns' = [conns EXCEPT ![k] = Closed(@)]
    /\ UNCHANGED <<clock, started, nonStreamVars>>

\* line 184: the timer fires and the callback sends its query
PollStart(k) ==
    /\ conns[k].timer
    /\ conns[k].poll = "idle"
    /\ conns' = [conns EXCEPT ![k].fired = TRUE, ![k].poll = "query"]
    /\ UNCHANGED <<clock, started, nonStreamVars>>

\* message.service.ts lines 50-62: Message.find({userEmail}).sort({date: -1}),
\* as the sequence of the commentIds found
MessagesOfAllUsers(userEmail) == { c \in CommentIds : threads[c] # NoThread }
MessagesOwnedBy(userEmail) ==
    { c \in CommentIds : threads[c] # NoThread /\ threads[c].userEmail = userEmail }
RECURSIVE ByDateDesc(_)
ByDateDesc(cs) ==
    IF cs = {} THEN <<>>
    ELSE LET c == CHOOSE c \in cs : \A d \in cs : threads[c].date >= threads[d].date
         IN  <<c>> \o ByDateDesc(cs \ {c})
MessagesByUserEmail(userEmail) ==
    ByDateDesc(MessagesOwnedBy(userEmail))

\* lines 190-200: flatMap of the threads to their content entries, each with
\* the commentId of its thread
RECURSIVE FlatMap(_)
FlatMap(cs) ==
    IF cs = <<>> THEN <<>>
    ELSE [i \in 1..Len(threads[Head(cs)].content) |->
             [text |-> threads[Head(cs)].content[i].text,
              time |-> threads[Head(cs)].content[i].time,
              commentId |-> Head(cs)]]
         \o FlatMap(Tail(cs))

\* lines 201-207: with no lastId every entry passes; with one, the entries
\* later than (now - 10 s)
IsNewByTimeOnly(msg, lastIdGiven, t) == msg.time > t - Window
IsNew(msg, lastIdGiven, t) == ~lastIdGiven \/ msg.time > t - Window
NewMessages(userEmail, lastIdGiven, t) ==
    SelectSeq(FlatMap(MessagesByUserEmail(userEmail)), LAMBDA msg : IsNew(msg, lastIdGiven, t))

\* lines 186-212: the query is answered and each new message is written; a
\* query that fails is answered with no thread (getMessagesByUserEmail
\* catches and returns []).  The callback does not look whether the
\* connection is still open.
PollEnd(k, ok) ==
    /\ conns[k].poll = "query"
    /\ LET new == IF ok THEN NewMessages(conns[k].user, conns[k].cursor, clock) ELSE <<>>
       IN  conns' = [conns EXCEPT
             ![k].poll = "idle",
             ![k].pollOk = ok,
             ![k].batch = new,
             ![k].first = IF @ = "none" /\ new # <<>> THEN "message" ELSE @,
             ![k].pushed = IF conns[k].state = "open"
                           THEN @ \cup { new[i] : i \in 1..Len(new) } ELSE @,
             ![k].late = @ \/ (conns[k].state = "closed" /\ new # <<>>)]
    /\ UNCHANGED <<clock, started, nonStreamVars>>

\* 5 s pass: every timer that is set (it fires every 2 s) has fired meanwhile
Tick ==
    /\ \A k \in ConnIds : conns[k].timer => conns[k].fired
    /\ clock' = IF clock < MaxTime THEN clock + 1 ELSE clock
    /\ conns' = [k \in ConnIds |-> [conns[k] EXCEPT !.fired = FALSE]]
    /\ UNCHANGED <<started, nonStreamVars>>

(***************************************************************************)
(* Site submissions                                                        *)
(***************************************************************************)
MaxSubs == 2
SubIds == 1..MaxSubs
SubStatuses == {"pending", "approved", "rejected"}
NoSub == [none |-> TRUE]

\* The bodies of POST /site-submissions: the submitter's e-mail, the
\* websites, the ownership answer, a status the body may carry, and the
\* uploaded file ("fails": saveFileToVPS throws)
NoBody == [email |-> "", websites |-> <<>>, isOwner |-> FALSE, status |-> "none", file |-> "none"]
GoodBody == [email |-> "pub@x.com", websites |-> <<"a.com", "b.com">>, isOwner |-> TRUE,
             status |-> "none", file |-> "none"]
SubmitBodies ==
    { GoodBody,
      [GoodBody EXCEPT !.status = "approved", !.file = "saved"],
      [GoodBody EXCEPT !.file = "fails"],
      [GoodBody EXCEPT !.email = ""],
      [GoodBody EXCEPT !.websites = <<>>, !.status = "approved"],
      [GoodBody EXCEPT !.isOwner = FALSE] }

\* createSiteSubmissionValidation: an e-mail, at least one website, and the
\* confirmation of ownership
ValidSubmit(body) == body.email # "" /\ body.websites # <<>> /\ body.isOwner

\* The default of the status field of the SiteSubmission schema
DefaultSubStatus == "pending"

\* controller lines 19-36: the fields the controller takes from the body
\* (status is not among them), as the document new SiteSubmission(data) makes
SiteSubmissionDataWithStatus(body) ==
    [ userEmail |-> body.email, websites |-> body.websites,
      status |-> IF body.status # "none" THEN body.status ELSE DefaultSubStatus,
      adminNotes |-> "none", reviewedAt |-> -1, hasFile |-> (body.file = "saved") ]
SiteSubmissionData(body) ==
    [ userEmail |-> body.email, websites |-> body.websites,
      status |-> DefaultSubStatus,
      adminNotes |-> "none", reviewedAt |-> -1, hasFile |-> (body.file = "saved") ]

NoSubmit == [pc |-> "idle", body |-> NoBody, code |-> 0, id |-> 0, attempts |-> 0,
             outcome |-> "none", ret |-> NoSub]

\* POST /site-submissions up to the save: validation (400), the upload
\* (400 when it fails), then new SiteSubmission(data).save()
SubmitSave(body) ==
    /\ lastSubmit.pc \in {"idle", "done"}
    /\ started < MaxOps
    /\ nextSubId <= MaxSubs
    /\ started' = started + 1
    /\ IF ~ValidSubmit(body) \/ body.file = "fails"
       THEN /\ lastSubmit' = [NoSubmit EXCEPT !.pc = "done", !.body = body, !.code = 400]
            /\ UNCHANGED <<subs, nextSubId>>
       ELSE /\ subs' = [subs EXCEPT ![nextSubId] = SiteSubmissionData(body)]
            /\ nextSubId' = nextSubId + 1
            /\ lastSubmit' = [NoSubmit EXCEPT !.pc = "email", !.body = body, !.id = nextSubId,
                                              !.ret = SiteSubmissionData(body)]
    /\ UNCHANGED <<sreq, del, nonSubVars>>

\* service lines 351-364: the submission-received e-mail in its try/catch,
\* then the saved document is returned
SubmitSend ==
    /\ lastSubmit.pc = "email"
    /\ \E outcome \in EmailOutcomes :
         lastSubmit' = [lastSubmit EXCEPT !.pc = "done", !.outcome = outcome,
                                          !.attempts = @ + 1,
                                          !.code = 201]
    /\ UNCHANGED <<subs, nextSubId, sreq, started, del, nonSubVars>>

\* The bodies PUT /site-submissions/:id lets through
\* (updateSiteSubmissionValidation): an optional status among the three and
\* optional admin notes
NoSubPatch == [status |-> "none", adminNotes |-> "none"]
SubPatches == [status : SubStatuses \cup {"none"}, adminNotes : {"none", "looks good"}]

NoMail == [websites |-> <<>>, adminNotes |-> "none"]
NoSreq == [ pc |-> "idle", id |-> 0, patch |-> NoSubPatch, prev |-> "none",
            kind |-> "none", attempts |-> 0, outcome |-> "none", code |-> 0,
            ret |-> NoSub, mail |-> NoMail ]

SFree(p) ==
    /\ sreq[p].pc \in {"idle", "done"}
    /\ \A q \in Slots : q < p => sreq[q].pc \notin {"idle", "done"}

\* lines 413-418: SiteSubmission.findById(id), and the 404 when there is none
UpdateSubRead(p, id, patch) ==
    /\ SFree(p)
    /\ started < MaxOps
    /\ started' = started + 1
    /\ sreq' = [sreq EXCEPT ![p] =
         IF subs[id] = NoSub
         THEN [NoSreq EXCEPT !.pc = "done", !.id = id, !.patch = patch, !.code = 404]
         ELSE [NoSreq EXCEPT !.pc = "write", !.id = id, !.patch = patch,
                             !.prev = subs[id].status]]
    /\ UNCHANGED <<subs, nextSubId, lastSubmit, del, nonSubVars>>

\* lines 422-429: findByIdAndUpdate(id, {...data, reviewedAt: new Date()})
ApplySubPatch(doc, patch) ==
    [doc EXCEPT !.status = IF patch.status # "none" THEN patch.status ELSE @,
                !.adminNotes = IF patch.adminNotes # "none" THEN patch.adminNotes ELSE @,
                !.reviewedAt = now]

\* lines 438-456: the e-mail of updateSiteSubmission for (oldStatus, newStatus)
SubNotifyRuleNoOldCheck(old, new) ==
    IF new = "none" THEN "none"
    ELSE IF new = "approved" THEN "approval"
    ELSE IF new = "rejected" THEN "rejection"
    ELSE "none"
SubNotifyRule(old, new) ==
    IF new = "none" \/ old = new THEN "none"
    ELSE IF new = "approved" THEN "approval"
    ELSE IF new = "rejected" THEN "rejection"
    ELSE "none"

\* lines 422-456: the update, the 404 when the submission is gone, and the
\* choice of the e-mail with what it carries
UpdateSubWrite(p) ==
    /\ sreq[p].pc = "write"
    /\ LET id == sreq[p].id IN
       IF subs[id] = NoSub
       THEN /\ sreq' = [sreq EXCEPT ![p].pc = "done", ![p].code = 404]
            /\ UNCHANGED subs
       ELSE LET doc == ApplySubPatch(subs[id], sreq[p].patch)
                kind == SubNotifyRule(sreq[p].prev, sreq[p].patch.status)
            IN  /\ subs' = [subs EXCEPT ![id] = doc]
                /\ sreq' = [sreq EXCEPT
                      ![p].ret = doc, ![p].kind = kind,
                      ![p].mail = IF kind = "none" THEN NoMail
                                  ELSE [websites |-> doc.websites,
                                        adminNotes |-> sreq[p].patch.adminNotes],
                      ![p].pc = IF kind = "none" THEN "done" ELSE "email",
                      ![p].code = IF kind = "none" THEN 200 ELSE 0]
    /\ UNCHANGED <<nextSubId, lastSubmit, started, del, nonSubVars>>

\* lines 439-460: the send in its try/catch; the call returns the submission
SubSend(p) ==
    /\ sreq[p].pc = "email"
    /\ \E outcome \in EmailOutcomes :
         sreq' = [sreq EXCEPT ![p].pc = "done", ![p].outcome = outcome,
                              ![p].attempts = @ + 1,
                              ![p].code = 200]
    /\ UNCHANGED <<subs, nextSubId, lastSubmit, started, del, nonSubVars>>

\* deleteFileFromVPS: the unlink succeeded, the file was not there (ENOENT,
\* reported as deleted), another error (reported as false), or a throw
\* before its own try/catch
FileDeleteOutcomes == {"deleted", "notfound", "failed", "threw"}

NoDel == [pc |-> "idle", id |-> 0, hadFile |-> FALSE, fileAttempts |-> 0,
          outcome |-> "none", code |-> 0]

\* lines 467-471: SiteSubmission.findById(id), NotFound when there is none
DeleteSubRead(id) ==
    /\ del.pc \in {"idle", "done"}
    /\ started < MaxOps
    /\ started' = started + 1
    /\ del' = IF subs[id] = NoSub
              THEN [NoDel EXCEPT !.pc = "done", !.id = id, !.code = 404]
              ELSE [NoDel EXCEPT !.pc = IF subs[id].hasFile THEN "file" ELSE "remove",
                                 !.id = id, !.hadFile = subs[id].hasFile]
    /\ UNCHANGED <<subs, nextSubId, lastSubmit, sreq, nonSubVars>>

\* lines 474-481: where the call goes on after deleteFileFromVPS, whose
\* failure is caught and logged
AfterFileDeleteUncaught(outcome) == IF outcome = "threw" THEN "failed" ELSE "remove"
AfterFileDelete(outcome) == "remove"

DeleteSubFile ==
    /\ del.pc = "file"
    /\ \E outcome \in FileDeleteOutcomes :
         del' = [del EXCEPT !.pc = AfterFileDelete(outcome), !.outcome = outcome,
                            !.fileAttempts = @ + 1,
                            !.code = IF AfterFileDelete(outcome) = "failed" THEN 500 ELSE 0]
    /\ UNCHANGED <<subs, nextSubId, lastSubmit, sreq, started, nonSubVars>>

\* line 483 and the controller's answer: findByIdAndDelete(id), 204
DeleteSubRemove ==
    /\ del.pc = "remove"
    /\ subs' = [subs EXCEPT ![del.id] = NoSub]
    /\ del' = [del EXCEPT !.pc = "done", !.code = 204]
    /\ UNCHANGED <<nextSubId, lastSubmit, sreq, started, nonSubVars>>

(***************************************************************************)
(* The payment service (PaymentService): one call at a time, the gateway's *)
(* answer arriving in a later step.                                        *)
(***************************************************************************)
PayOps == {"createStripePaymentIntent", "verifyStripePayment",
           "createPayPalPayment", "executePayPalPayment"}

\* What a gateway hands back: an error (its HTTP status, 0 when it has none,
\* its message, and the error and error_description of its response body)
\* or an answer (present or null; a payment's state and links, an intent's
\* status and client secret)
NoGw == [ isError |-> FALSE, httpStatusCode |-> 0, message |-> "", error |-> "",
          description |-> "", present |-> TRUE, state |-> "", hasLinks |-> FALSE,
          links |-> {}, secret |-> "" ]

PayPalErrors ==
    { [NoGw EXCEPT !.isError = TRUE, !.httpStatusCode = h, !.message = t,
                   !.error = e, !.description = d] :
        h \in {0, 400, 401, 503}, t \in {"", "gateway message"},
        e \in {"", "invalid_client", "VALIDATION_ERROR"}, d \in {"", "Client Authentication failed"} }

PayPalPayments ==
    { [NoGw EXCEPT !.state = st, !.hasLinks = TRUE, !.links = l] :
        st \in {"created", "approved", "failed"},
        l \in SUBSET {"self", "approval_url", "execute"} }
    \cup { [NoGw EXCEPT !.state = st] : st \in {"created", "approved"} }
    \cup { [NoGw EXCEPT !.present = FALSE] }

StripeErrors ==
    { [NoGw EXCEPT !.isError = TRUE, !.httpStatusCode = h, !.message = t] :
        h \in {0, 402}, t \in {"", "No such payment_intent"} }

StripeIntents ==
    { [NoGw EXCEPT !.state = st, !.secret = c] :
        st \in {"succeeded", "requires_payment_method", "processing"},
        c \in {"", "secret"} }

GatewayAnswers(op) ==
    IF op \in {"createPayPalPayment", "executePayPalPayment"}
    THEN PayPalErrors \cup PayPalPayments
    ELSE StripeErrors \cup StripeIntents

\* How a call ends: the promise resolves with a PaymentResult or a boolean,
\* rejects with an AppError (typed, with its status code and message), or
\* an exception that is no AppError escapes
NoPayResult == [ kind |-> "none", typed |-> FALSE, status |-> 0, message |-> <<>>,
              success |-> FALSE, approvalUrl |-> FALSE, clientSecret |-> "" ]
Rejected500(message) ==
    [NoPayResult EXCEPT !.kind = "rejected", !.typed = TRUE, !.status = 500, !.message = message]
RejectedWith(message, status) ==
    [NoPayResult EXCEPT !.kind = "rejected", !.typed = TRUE, !.status = status, !.message = message]
Resolved == [NoPayResult EXCEPT !.kind = "resolved", !.success = TRUE]
Returned(b) == [NoPayResult EXCEPT !.kind = "resolved", !.success = b]
Threw == [NoPayResult EXCEPT !.kind = "threw"]

\* a || b on strings
OrElse(a, b) == IF a # "" THEN a ELSE b

\* createStripePaymentIntent: the try/catch around paymentIntents.create
CreateStripePaymentIntentAnswer(gw) ==
    IF gw.isError
    THEN RejectedWith(<<OrElse(gw.message, "Failed to create payment intent")>>, 500)
    ELSE [Resolved EXCEPT !.clientSecret = gw.secret]

\* verifyStripePayment: the try/catch around paymentIntents.retrieve
VerifyStripePaymentAnswer(gw) ==
    IF gw.isError
    THEN Returned(FALSE)
    ELSE Returned(gw.state = "succeeded")

\* createPayPalPayment: the callback of paypal.payment.create
CreatePayPalPaymentAnswerNo401(gw) ==
    IF gw.isError
    THEN RejectedWith(<<OrElse(gw.message,
                             OrElse(gw.description, "Failed to create PayPal payment"))>>,
                      IF gw.httpStatusCode # 0 THEN gw.httpStatusCode ELSE 500)
    ELSE IF ~gw.present \/ ~gw.hasLinks
    THEN RejectedWith(<<"Invalid PayPal payment response">>, 500)
    ELSE IF "approval_url" \notin gw.links
    THEN RejectedWith(<<"PayPal approval URL not found">>, 500)
    ELSE [Resolved EXCEPT !.approvalUrl = TRUE]
CreatePayPalPaymentAnswer(gw) ==
    IF gw.isError
    THEN IF gw.httpStatusCode = 401 \/ gw.error = "invalid_client"
         THEN RejectedWith(<<"PayPal authentication failed: ",
                             OrElse(gw.description,
                                    OrElse(gw.message, "PayPal authentication failed")),
                             ". Please verify your PayPal credentials">>, 401)
         ELSE RejectedWith(<<OrElse(gw.message,
                                    OrElse(gw.description, "Failed to create PayPal payment"))>>,
                           IF gw.httpStatusCode # 0 THEN gw.httpStatusCode ELSE 500)
    ELSE IF ~gw.present \/ ~gw.hasLinks
    THEN RejectedWith(<<"Invalid PayPal payment response">>, 500)
    ELSE IF "approval_url" \notin gw.links
    THEN RejectedWith(<<"PayPal approval URL not found">>, 500)
    ELSE [Resolved EXCEPT !.approvalUrl = TRUE]

\* executePayPalPayment: the callback of paypal.payment.execute; payment.state
\* of a null payment is a TypeError thrown in the callback
ExecutePayPalPaymentAnswer(gw) ==
    IF gw.isError
    THEN RejectedWith(<<OrElse(gw.message, "Failed to execute PayPal payment")>>, 500)
    ELSE IF ~gw.present
    THEN Threw
    ELSE IF gw.state = "approved"
    THEN Resolved
    ELSE RejectedWith(<<"Payment was not approved">>, 400)

PaymentAnswer(op, gw) ==
    CASE op = "createStripePaymentIntent" -> CreateStripePaymentIntentAnswer(gw)
      [] op = "verifyStripePayment" -> VerifyStripePaymentAnswer(gw)
      [] op = "createPayPalPayment" -> CreatePayPalPaymentAnswer(gw)
      [] op = "executePayPalPayment" -> ExecutePayPalPaymentAnswer(gw)

NotConfiguredMessage(op) ==
    CASE op \in {"createStripePaymentIntent", "verifyStripePayment"} -> <<"Stripe is not configured">>
      [] op = "createPayPalPayment" -> <<"PayPal is not configured">>
      [] op = "executePayPalPayment" -> <<"PayPal is not configured">>

NoPay == [pc |-> "idle", op |-> "none", gw |-> NoGw, asked |-> FALSE, result |-> NoPayResult]

\* the start of a call: the configuration checks, then the request to the gateway
PaymentCall(op, configured) ==
    /\ pay.pc \in {"idle", "done"}
    /\ pay' = IF configured
              THEN [NoPay EXCEPT !.pc = "waiting", !.op = op, !.asked = TRUE]
              ELSE [NoPay EXCEPT !.pc = "done", !.op = op,
                                 !.result = Rejected500(NotConfiguredMessage(op))]
    /\ UNCHANGED <<started, nonPayVars>>

\* the gateway's answer and what the call makes of it
PaymentReturn(gw) ==
    /\ pay.pc = "waiting"
    /\ gw \in GatewayAnswers(pay.op)
    /\ pay' = [pay EXCEPT !.pc = "done", !.gw = gw, !.result = PaymentAnswer(pay.op, gw)]
    /\ UNCHANGED <<started, nonPayVars>>

(***************************************************************************)
(* GET /files/:filePath (files.routes.ts), for a request that has passed   *)
(* the protect middleware.  A path is whether it starts with "/" and its   *)
(* segments; the upload root holds a file, a directory and a file in it,   *)
(* and the directory above the root holds a file "secret".                 *)
(***************************************************************************)
MaxPathLen == 3
Segments == {"..", "d", "f.csv", "v1..2.csv", "secret"}
\* the segments in which the text ".." occurs
DotDotSegments == {"..", "v1..2.csv"}
PathSegs == UNION { [1..n -> Segments] : n \in 1..MaxPathLen }
FilePaths == [absolute : BOOLEAN, segs : PathSegs]

UploadedFiles == { <<"f.csv">>, <<"d", "f.csv">>, <<"v1..2.csv">> }
UploadDirs == { <<>>, <<"d">> }

\* path.join(config.upload.uploadPath, filePath): the segments are appended
\* to the root and ".." is resolved lexically; up counts the levels above
\* the root the result lies
RECURSIVE Normalize(_, _, _)
Normalize(segs, acc, up) ==
    IF segs = <<>> THEN [up |-> up, segs |-> acc]
    ELSE IF Head(segs) = ".."
         THEN IF acc = <<>> THEN Normalize(Tail(segs), acc, up + 1)
              ELSE Normalize(Tail(segs), SubSeq(acc, 1, Len(acc) - 1), up)
         ELSE Normalize(Tail(segs), Append(acc, Head(segs)), up)
FullPath(path) == Normalize(path.segs, <<>>, 0)

IsFileAt(full) ==
    IF full.up = 0 THEN full.segs \in fsys
    ELSE full.up = 1 /\ full.segs = <<"secret">>
IsDirAt(full) ==
    IF full.up = 0 THEN full.segs \in UploadDirs
    ELSE full.segs = <<>>
ExistsAt(full) == IsFileAt(full) \/ IsDirAt(full)

\* line 25: filePath.includes("..") || path.isAbsolute(filePath)
InvalidFilePathAbsoluteOnly(path) == path.absolute
InvalidFilePath(path) ==
    \/ \E i \in 1..Len(path.segs) : path.segs[i] \in DotDotSegments
    \/ path.absolute

NoFull == [up |-> 0, segs |-> <<>>]
NoFreq == [ pc |-> "idle", path |-> [absolute |-> FALSE, segs |-> <<"f.csv">>],
            full |-> NoFull, code |-> 0, accesses |-> 0, outside |-> FALSE,
            sent |-> FALSE, sentFrom |-> NoFull ]

\* lines 20-29: the traversal check and the join
FileGet(path) ==
    /\ freq.pc \in {"idle", "done"}
    /\ freq' = IF InvalidFilePath(path)
               THEN [NoFreq EXCEPT !.pc = "done", !.path = path, !.code = 400]
               ELSE [NoFreq EXCEPT !.pc = "access", !.path = path, !.full = FullPath(path)]
    /\ UNCHANGED <<fsys, started, nonFileVars>>

\* lines 31-36: fs.access(fullPath), NotFound when it throws
FileAccess ==
    /\ freq.pc = "access"
    /\ freq' = [freq EXCEPT !.accesses = @ + 1,
                            !.outside = @ \/ freq.full.up > 0,
                            !.pc = IF ExistsAt(freq.full) THEN "stat" ELSE "done",
                            !.code = IF ExistsAt(freq.full) THEN 0 ELSE 404]
    /\ UNCHANGED <<fsys, started, nonFileVars>>

\* lines 38-42: fs.stat(fullPath); BadRequest when it is no regular file,
\* and the outer catch (500) when the path has gone meanwhile
FileStat ==
    /\ freq.pc = "stat"
    /\ freq' = [freq EXCEPT !.accesses = @ + 1,
                            !.outside = @ \/ freq.full.up > 0,
                            !.pc = IF IsFileAt(freq.full) THEN "read" ELSE "done",
                            !.code = IF IsFileAt(freq.full) THEN 0
                                     ELSE IF ExistsAt(freq.full) THEN 400 ELSE 500]
    /\ UNCHANGED <<fsys, started, nonFileVars>>

\* lines 44-70: the headers, fs.readFile(fullPath) and res.send
FileRead ==
    /\ freq.pc = "read"
    /\ freq' = [freq EXCEPT !.accesses = @ + 1,
                            !.outside = @ \/ freq.full.up > 0,
                            !.pc = "done",
                            !.sent = IsFileAt(freq.full),
                            !.sentFrom = IF IsFileAt(freq.full) THEN freq.full ELSE NoFull,
                            !.code = IF IsFileAt(freq.full) THEN 200 ELSE 500]
    /\ UNCHANGED <<fsys, started, nonFileVars>>

\* deleteFileFromVPS (fs.unlink) while requests are served
FileUnlinked(f) ==
    /\ f \in fsys
    /\ fsys' = fsys \ {f}
    /\ UNCHANGED <<freq, started, nonFileVars>>

(***************************************************************************)
(* The auth service (auth.service.ts): login, googleAuth, refreshToken,    *)
(* forgotPassword and resetPassword, one call at a time, each database     *)
(* read and each save a step of its own.                                   *)
(***************************************************************************)
MaxTokens == 2
AccountIds == {1, 2, 3}
\* how long a reset token stays valid, in steps of the clock
ResetTtl == 1
Passwords == {"Old#pass1", "New#pass2", "weak"}

\* what the User schema stores for user_pass
Hash(pass) == <<"hash", pass>>
\* user.comparePassword(user_pass)
ComparePassword(doc, pass) == doc.user_pass = Hash(pass)
\* validatePasswordStrength(user_pass).valid
StrongPassword(pass) == pass # "weak"

NoAccount == [none |-> TRUE]
Account(email, status) ==
    [ user_email |-> email, user_pass |-> Hash("Old#pass1"), user_status |-> status,
      role |-> "user", lastLogin |-> 0, isEmailVerified |-> FALSE,
      passwordResetToken |-> 0, passwordResetExpires |-> 0 ]
InitialAccounts ==
    [u \in AccountIds |->
        CASE u = 1 -> Account("ann@x.com", "active")
          [] u = 2 -> Account("bob@x.com", "inactive")
          [] OTHER -> NoAccount]

\* the status of an account that User.create makes when its data names none
DefaultUserStatus == "active"

\* User.findOne({user_email}): the _id of the account, 0 when there is none
AccountByEmail(email) ==
    IF \E u \in AccountIds : accounts[u] # NoAccount /\ accounts[u].user_email = email
    THEN CHOOSE u \in AccountIds : accounts[u] # NoAccount /\ accounts[u].user_email = email
    ELSE 0

\* User.findOne({passwordResetToken: token, passwordResetExpires: {$gt: Date.now()}})
AccountByResetToken(token) ==
    IF \E u \in AccountIds : /\ accounts[u] # NoAccount
                             /\ accounts[u].passwordResetToken = token
                             /\ accounts[u].passwordResetExpires > clock
    THEN CHOOSE u \in AccountIds : /\ accounts[u] # NoAccount
                                   /\ accounts[u].passwordResetToken = token
                                   /\ accounts[u].passwordResetExpires > clock
    ELSE 0

\* the refresh tokens a request can carry: one that verifyRefreshToken
\* refuses, and one that decodes to each user id
RefreshTokens == {[valid |-> FALSE, userId |-> 0]} \cup [valid : {TRUE}, userId : AccountIds]

NoAreq == [ pc |-> "idle", op |-> "none", email |-> "", pass |-> "", token |-> 0,
            uid |-> 0, code |-> 0, issued |-> 0 ]

AuthIdle == areq.pc \in {"idle", "done"}
AuthFailed(call, code) == [call EXCEPT !.pc = "done", !.code = code]

\* login, lines 109-133: the checks before the save
LoginFind(email, pass) ==
    /\ AuthIdle
    /\ LET call == [NoAreq EXCEPT !.op = "login", !.email = email, !.pass = pass]
           u == AccountByEmail(email)
       IN  areq' = IF email = "" \/ pass = "" THEN AuthFailed(call, 400)
                   ELSE IF u = 0 THEN AuthFailed(call, 401)
                   ELSE IF ~ComparePassword(accounts[u], pass) THEN AuthFailed(call, 401)
                   ELSE IF accounts[u].user_status # "active" THEN AuthFailed(call, 401)
                   ELSE [call EXCEPT !.pc = "save", !.uid = u]
    /\ started < MaxOps
    /\ started' = started + 1
    /\ UNCHANGED <<accounts, nextToken, consumed, nonAuthVars>>

\* login, lines 135-156: last login saved, tokens generated
LoginSave ==
    /\ areq.pc = "save" /\ areq.op = "login"
    /\ accounts' = [accounts EXCEPT ![areq.uid].lastLogin = clock]
    /\ areq' = [areq EXCEPT !.pc = "done", !.code = 200, !.issued = areq.uid]
    /\ UNCHANGED <<nextToken, consumed, started, nonAuthVars>>

\* googleAuth, lines 282-293: the lookup by e-mail
GoogleFind(email) ==
    /\ AuthIdle
    /\ LET call == [NoAreq EXCEPT !.op = "googleAuth", !.email = email]
           u == AccountByEmail(email)
       IN  areq' = IF u # 0 THEN [call EXCEPT !.pc = "save", !.uid = u]
                   ELSE [call EXCEPT !.pc = "create"]
    /\ started < MaxOps
    /\ started' = started + 1
    /\ UNCHANGED <<accounts, nextToken, consumed, nonAuthVars>>

\* googleAuth: the tokens it returns for the account it found or created
GoogleIssued(u) == u

\* googleAuth, lines 294-331: an existing user is saved with a new last
\* login and a verified e-mail, and gets tokens
GoogleSave ==
    /\ areq.pc = "save" /\ areq.op = "googleAuth"
    /\ accounts' = [accounts EXCEPT ![areq.uid].lastLogin = clock,
                                    ![areq.uid].isEmailVerified = TRUE]
    /\ areq' = [areq EXCEPT !.pc = "done", !.issued = GoogleIssued(areq.uid),
                            !.code = IF GoogleIssued(areq.uid) = 0 THEN 401 ELSE 200]
    /\ UNCHANGED <<nextToken, consumed, started, nonAuthVars>>

\* googleAuth, lines 301-331: User.create for an e-mail of no user, tokens
GoogleCreate ==
    /\ areq.pc = "create"
    /\ \E u \in AccountIds :
         /\ accounts[u] = NoAccount
         /\ \A v \in AccountIds : v < u => accounts[v] # NoAccount
         /\ accounts' = [accounts EXCEPT ![u] =
                [Account(areq.email, DefaultUserStatus) EXCEPT
                    !.user_pass = Hash("googleId"), !.isEmailVerified = TRUE,
                    !.lastLogin = clock]]
         /\ areq' = [areq EXCEPT !.pc = "done", !.uid = u, !.issued = u, !.code = 200]
    /\ UNCHANGED <<nextToken, consumed, started, nonAuthVars>>

\* refreshToken, lines 358-390: verifyRefreshToken, findById, new tokens;
\* every throw inside the try becomes Unauthorized
RefreshToken(rt) ==
    /\ AuthIdle
    /\ LET call == [NoAreq EXCEPT !.op = "refreshToken", !.uid = rt.userId] IN
       areq' = IF ~rt.valid THEN AuthFailed(call, 401)
               ELSE IF accounts[rt.userId] = NoAccount THEN AuthFailed(call, 401)
               ELSE [call EXCEPT !.pc = "done", !.code = 200, !.issued = rt.userId]
    /\ started < MaxOps
    /\ started' = started + 1
    /\ UNCHANGED <<accounts, nextToken, consumed, nonAuthVars>>

\* forgotPassword, lines 197-204: the lookup; the same answer either way
ForgotFind(email) ==
    /\ AuthIdle
    /\ nextToken <= MaxTokens
    /\ LET call == [NoAreq EXCEPT !.op = "forgotPassword", !.email = email]
           u == AccountByEmail(email)
       IN  areq' = IF u = 0 THEN AuthFailed(call, 200)
                   ELSE [call EXCEPT !.pc = "save", !.uid = u]
    /\ started < MaxOps
    /\ started' = started + 1
    /\ UNCHANGED <<accounts, nextToken, consumed, nonAuthVars>>

\* user.generatePasswordResetToken(): a fresh token and its expiry are put
\* on the document and the token is returned
GeneratePasswordResetToken(doc) ==
    [doc EXCEPT !.passwordResetToken = nextToken,
                !.passwordResetExpires = clock + ResetTtl]

\* forgotPassword, lines 206-214: the token is generated and saved
ForgotSave ==
    /\ areq.pc = "save" /\ areq.op = "forgotPassword"
    /\ accounts' = [accounts EXCEPT ![areq.uid] = GeneratePasswordResetToken(@)]
    /\ nextToken' = nextToken + 1
    /\ areq' = [areq EXCEPT !.pc = "done", !.code = 200, !.token = nextToken]
    /\ UNCHANGED <<consumed, started, nonAuthVars>>

\* resetPassword, lines 219-238: the strength check, then the lookup by
\* token and expiry
ResetFind(token, pass) ==
    /\ AuthIdle
    /\ LET call == [NoAreq EXCEPT !.op = "resetPassword", !.token = token, !.pass = pass]
           u == AccountByResetToken(token)
       IN  areq' = IF ~StrongPassword(pass) THEN AuthFailed(call, 400)
                   ELSE IF u = 0 THEN AuthFailed(call, 400)
                   ELSE [call EXCEPT !.pc = "save", !.uid = u]
    /\ started < MaxOps
    /\ started' = started + 1
    /\ UNCHANGED <<accounts, nextToken, consumed, nonAuthVars>>

\* resetPassword, lines 240-244: the document the call saves
ResetSavedKeepingToken(doc, pass) ==
    [doc EXCEPT !.user_pass = Hash(pass)]
ResetSaved(doc, pass) ==
    [doc EXCEPT !.user_pass = Hash(pass),
                !.passwordResetToken = 0,
                !.passwordResetExpires = 0]

ResetSave ==
    /\ areq.pc = "save" /\ areq.op = "resetPassword"
    /\ accounts' = [accounts EXCEPT ![areq.uid] = ResetSaved(@, areq.pass)]
    /\ consumed' = consumed \cup {areq.token}
    /\ areq' = [areq EXCEPT !.pc = "done", !.code = 200]
    /\ UNCHANGED <<nextToken, started, nonAuthVars>>

(***************************************************************************)
(* The order routes (orderRoutes): the middleware a request passes before  *)
(* the controller calls the service.                                       *)
(***************************************************************************)
\* what a request carries: no valid bearer token, or the token of a user
NoCred == [userId |-> "", role |-> "none"]
Credentials ==
    { NoCred,
      [userId |-> "id1", role |-> "user"],
      [userId |-> "id3", role |-> "admin"] }

\* protect: lets a request with a valid bearer token through and sets req.user
Protect(cred) == cred # NoCred
\* authorize(role): lets req.user through when it has the role
Authorize(cred, role) == cred.role = role

\* router.put("/:id", protect, validate(updateOrderValidation), updateOrder)
PutOrderGate(cred) == IF ~Protect(cred) THEN 401 ELSE 0
\* router.delete("/:id", protect, authorize("admin"), validate(orderIdValidation), deleteOrder)
DeleteOrderGate(cred) ==
    IF ~Protect(cred) THEN 401 ELSE IF ~Authorize(cred, "admin") THEN 403 ELSE 0
\* router.patch("/:id/complete", protect, authorize("admin"),
\*              validate(completeOrderValidation), completeOrder)
CompleteOrderGateProtectOnly(cred) == IF ~Protect(cred) THEN 401 ELSE 0
CompleteOrderGate(cred) ==
    IF ~Protect(cred) THEN 401 ELSE IF ~Authorize(cred, "admin") THEN 403 ELSE 0

NoHttp == [route |-> "none", cred |-> NoCred, code |-> 0]

\* a request that a middleware answers: nothing else happens
Refused(route, cred, code) ==
    /\ started < MaxOps
    /\ started' = started + 1
    /\ http' = [route |-> route, cred |-> cred, code |-> code]
    /\ UNCHANGED <<gate, orders, nextOrderId, lastCreate, req,
                   confirmAttempts, paidChanges, stats, nonOrderVars>>

\* PUT /orders/:id: the gate, then the controller's orderService.updateOrder(id, req.body)
PutOrder(p, cred, id, patch) ==
    IF PutOrderGate(cred) # 0
    THEN Refused("PUT /:id", cred, PutOrderGate(cred))
    ELSE /\ UpdateRead(p, id, patch)
         /\ gate' = [gate EXCEPT ![p] = cred]
         /\ http' = [route |-> "PUT /:id", cred |-> cred, code |-> 0]

\* PATCH /orders/:id/complete: the gate, then orderService.completeOrder
PatchComplete(p, cred, id, args) ==
    IF CompleteOrderGate(cred) # 0
    THEN Refused("PATCH /:id/complete", cred, CompleteOrderGate(cred))
    ELSE /\ CompleteWrite(p, id, args)
         /\ gate' = [gate EXCEPT ![p] = cred]
         /\ http' = [route |-> "PATCH /:id/complete", cred |-> cred, code |-> 0]

\* DELETE /orders/:id: the gate, then orderService.deleteOrder
DeleteRoute(cred, id) ==
    IF DeleteOrderGate(cred) # 0
    THEN Refused("DELETE /:id", cred, DeleteOrderGate(cred))
    ELSE /\ DeleteOrder(id)
         /\ http' = [route |-> "DELETE /:id", cred |-> cred, code |-> 0]
         /\ UNCHANGED gate

(***************************************************************************)
(* getOrders (OrderService.getOrders and its controller): the find and the *)
(* count are two queries of a Promise.all, each answered in its own step.  *)
(***************************************************************************)
\* createdAt of an order: orders are saved one after another, a later one
\* with a later time
CreatedAt(id) == id

\* what the controller makes of req.query: "" and 0 stand for an absent value
OrderQueries ==
    { [userId |-> "", userEmail |-> "", status |-> "", startDate |-> 0],
      [userId |-> "id1", userEmail |-> "", status |-> "", startDate |-> 0],
      [userId |-> "abc", userEmail |-> "", status |-> "", startDate |-> 0],
      [userId |-> "", userEmail |-> "ann@x.com", status |-> "pending", startDate |-> 0],
      [userId |-> "", userEmail |-> "", status |-> "completed", startDate |-> 2] }
OrderFilters ==
    { [userId |-> q.userId, userEmail |-> q.userEmail, status |-> q.status,
       startDate |-> q.startDate, page |-> page, limit |-> limit] :
        q \in OrderQueries, page \in 1..(MaxOrders + 1), limit \in 1..MaxOrders }

\* Mongoose casts the filter of find and countDocuments: a userId that is no
\* ObjectId string is a CastError
FilterCastFails(filters) == filters.userId # "" /\ ~IsObjectIdString(filters.userId)

\* the orders the query built at lines 200-212 matches
MatchesFilters(doc, id, filters) ==
    /\ filters.userId # "" => doc.userId = Oid(filters.userId)
    /\ filters.userEmail # "" => doc.userEmail = filters.userEmail
    /\ filters.status # "" => doc.status = filters.status
    /\ filters.startDate # 0 => CreatedAt(id) >= filters.startDate
MatchingIds(filters) ==
    { id \in OrderIds : orders[id] # NoOrder /\ MatchesFilters(orders[id], id, filters) }

\* .sort({ createdAt: -1 })
RECURSIVE NewestFirst(_)
NewestFirst(ids) ==
    IF ids = {} THEN <<>>
    ELSE LET newest == CHOOSE i \in ids : \A j \in ids : CreatedAt(j) <= CreatedAt(i)
         IN  <<newest>> \o NewestFirst(ids \ {newest})

\* .skip(skip).limit(limit) on a sorted result
SkipLimit(sorted, skip, limit) ==
    SubSeq(sorted, skip + 1, IF skip + limit <= Len(sorted) THEN skip + limit ELSE Len(sorted))

\* const skip = (page - 1) * limit; Order.find(query).sort(...).skip(skip).limit(limit)
FindPageSkippingPages(filters, page, limit) ==
    SkipLimit(NewestFirst(MatchingIds(filters)), page * limit, limit)
FindPage(filters, page, limit) ==
    SkipLimit(NewestFirst(MatchingIds(filters)), (page - 1) * limit, limit)

\* Math.ceil(total / limit)
Ceil(total, limit) == (total + limit - 1) \div limit

NoListing == [ pc |-> "idle", filters |-> [userId |-> "", userEmail |-> "", status |-> "",
                                            startDate |-> 0, page |-> 1, limit |-> 1],
               left |-> {}, seen |-> <<>>, quiet |-> TRUE, code |-> 0,
               orders |-> <<>>, total |-> 0, totalPages |-> 0 ]

\* the call: the query is built and both queries are sent
ListStart(filters) ==
    /\ listing.pc \in {"idle", "done"}
    /\ started < MaxOps
    /\ started' = started + 1
    /\ listing' = [NoListing EXCEPT !.pc = "queries", !.filters = filters,
                                    !.left = {"find", "count"}]
    /\ UNCHANGED nonListVars

\* one of the two queries is answered; with the second the call returns, or
\* fails with 500 when a query threw
ListQuery(q) ==
    /\ listing.pc = "queries"
    /\ q \in listing.left
    /\ LET f == listing.filters
           last == listing.left = {q}
           failed == FilterCastFails(f)
           answered == [listing EXCEPT
               !.left = @ \ {q},
               !.orders = IF q = "find" /\ ~failed THEN FindPage(f, f.page, f.limit) ELSE @,
               !.total = IF q = "count" /\ ~failed THEN Cardinality(MatchingIds(f)) ELSE @,
               !.seen = IF last THEN <<>> ELSE <<orders>>,
               !.quiet = IF last THEN listing.seen = <<orders>> ELSE @]
       IN  listing' =
             IF ~last THEN answered
             ELSE IF failed THEN [answered EXCEPT !.pc = "done", !.code = 500]
             ELSE [answered EXCEPT !.pc = "done", !.code = 200,
                                   !.totalPages = Ceil(answered.total, f.limit)]
    /\ UNCHANGED <<started, nonListVars>>

Init ==
    /\ orders = [i \in OrderIds |-> NoOrder]
    /\ nextOrderId = 1
    /\ lastCreate = NoCreate
    /\ req = [p \in Slots |-> NoReq]
    /\ started = 0
    /\ confirmAttempts = [i \in OrderIds |-> 0]
    /\ paidChanges = [i \in OrderIds |-> 0]
    /\ stats = NoStats
    /\ threads = [c \in CommentIds |-> NoThread]
    /\ mreq = [p \in Slots |-> NoMreq]
    /\ addsDone = [c \in CommentIds |-> 0]
    /\ createdLen = [c \in CommentIds |-> 0]
    /\ conns = [k \in ConnIds |-> NoConn]
    /\ clock = Window
    /\ subs = [i \in SubIds |-> NoSub]
    /\ nextSubId = 1
    /\ lastSubmit = NoSubmit
    /\ sreq = [p \in Slots |-> NoSreq]
    /\ del = NoDel
    /\ pay = NoPay
    /\ fsys = UploadedFiles
    /\ freq = NoFreq
    /\ accounts = InitialAccounts
    /\ areq = NoAreq
    /\ nextToken = 1
    /\ consumed = {}
    /\ gate = [p \in Slots |-> NoCred]
    /\ http = NoHttp
    /\ listing = NoListing

(***************************************************************************)
(* createOrder on its own, over the whole input space.                     *)
(***************************************************************************)
CreateAny == \E data \in CreateInputs :
    CreateOrder(data) /\ UNCHANGED routeVars

CreateNext == CreateAny

CreateSpec == Init /\ [][CreateNext]_vars

(***************************************************************************)
(* The order service under concurrent requests.                            *)
(***************************************************************************)
Create == \E data \in ValidCreateInputs :
    CreateOrder(data) /\ UNCHANGED routeVars
Update == \E p \in Slots, id \in OrderIds, patch \in Patches :
    UpdateRead(p, id, patch) /\ UNCHANGED routeVars
Write == \E p \in Slots :
    UpdateWrite(p) /\ UNCHANGED routeVars
Complete == \E p \in Slots, id \in OrderIds, args \in CompletionArgs :
    CompleteWrite(p, id, args) /\ UNCHANGED routeVars
Send == \E p \in Slots :
    SendEmail(p) /\ UNCHANGED routeVars
Delete == \E id \in OrderIds :
    DeleteOrder(id) /\ UNCHANGED routeVars
\* getOrderStats, and one answer of the database to it
Stats == \E userId \in StatsUserIds :
    StatsStart(userId) /\ UNCHANGED routeVars
Query == \E q \in StatsQueries :
    StatsQuery(q) /\ UNCHANGED routeVars

Next == Create \/ Update \/ Write \/ Complete \/ Send \/ Delete

Spec == Init /\ [][Next]_vars

(***************************************************************************)
(* The same requests, with a getOrderStats call among them.                *)
(***************************************************************************)
StatsNext == Next \/ Stats \/ Query

StatsSpec == Init /\ [][StatsNext]_vars

(***************************************************************************)
(* The message service under concurrent requests.                          *)
(***************************************************************************)
NewThread == \E data \in MessageData : CreateMessage(data)
Reply == \E p \in Slots, c \in CommentIds, entry \in Entries : AddFind(p, c, entry)
Save == \E p \in Slots : AddSave(p)

MsgNext == NewThread \/ Reply \/ Save

MsgSpec == Init /\ [][MsgNext]_vars

(***************************************************************************)
(* The message service with the owners' updates.                           *)
(***************************************************************************)
Edit == \E c \in CommentIds, userEmail \in {"ann@x.com", "bob@x.com"}, data \in UpdateData :
            UpdateMessage(c, userEmail, data)

ThreadNext == MsgNext \/ Edit

ThreadSpec == Init /\ [][ThreadNext]_vars

(***************************************************************************)
(* The message stream, with the threads it polls.                          *)
(***************************************************************************)
StreamMessageData ==
    { data \in MessageData :
        /\ data.content = <<>>
        /\ data.approved = 1
        /\ data.commentId = "c1" => data.userEmail = "ann@x.com" }

Post == \E data \in StreamMessageData : CreateMessage(data)
Open == \E k \in ConnIds, request \in StreamRequests : Connect(k, request)
Hangup == \E k \in ConnIds : Close(k)
Fire == \E k \in ConnIds : PollStart(k)
Polled == \E k \in ConnIds, ok \in BOOLEAN : PollEnd(k, ok)

Respond == \E c \in CommentIds, entry \in { e \in Entries : e.text = "reply" } :
              AddFind(1, c, entry)

StreamNext == Post \/ Respond \/ Save \/ Open \/ Hangup \/ Fire \/ Polled \/ Tick

StreamSpec == Init /\ [][StreamNext]_vars

(***************************************************************************)
(* One stream connection whose timer keeps firing and whose queries        *)
(* succeed, and replies that are saved.                                    *)
(***************************************************************************)
Open1 == \E request \in StreamRequests : Connect(1, request)
Hangup1 == Close(1)
Fire1 == PollStart(1)
Polled1 == PollEnd(1, TRUE)

LiveNext == Post \/ Respond \/ Save \/ Open1 \/ Hangup1 \/ Fire1 \/ Polled1 \/ Tick

LiveSpec ==
    /\ Init
    /\ [][LiveNext]_vars
    /\ WF_vars(Fire1) /\ WF_vars(Polled1) /\ WF_vars(Tick) /\ WF_vars(Save)

(***************************************************************************)
(* Site submissions under concurrent requests.                             *)
(***************************************************************************)
Submit == \E body \in SubmitBodies : SubmitSave(body)
Received == SubmitSend
Review == \E p \in Slots, id \in SubIds, patch \in SubPatches : UpdateSubRead(p, id, patch)
Decide == \E p \in Slots : UpdateSubWrite(p)
Notify == \E p \in Slots : SubSend(p)

SubNext == Submit \/ Received \/ Review \/ Decide \/ Notify

SubSpec == Init /\ [][SubNext]_vars

(***************************************************************************)
(* Site submissions with deletion.                                         *)
(***************************************************************************)
Remove == \E id \in SubIds : DeleteSubRead(id)
Unlink == DeleteSubFile
Erase == DeleteSubRemove

DelNext == SubNext \/ Remove \/ Unlink \/ Erase

DelSpec == Init /\ [][DelNext]_vars

(***************************************************************************)
(* The payment service on its own, over the gateways' answers.             *)
(***************************************************************************)
Charge == \E op \in PayOps, configured \in BOOLEAN : PaymentCall(op, configured)
Settle == \E gw \in PayPalErrors \cup PayPalPayments \cup StripeErrors \cup StripeIntents :
              PaymentReturn(gw)

PayNext == Charge \/ Settle

PaySpec == Init /\ [][PayNext]_vars

(***************************************************************************)
(* File serving on its own, over the paths a request can name.             *)
(***************************************************************************)
Fetch == \E path \in FilePaths : FileGet(path)
Probe == FileAccess
Inspect == FileStat
Serve == FileRead
Vanish == \E f \in UploadedFiles : FileUnlinked(f)

FileNext == Fetch \/ Probe \/ Inspect \/ Serve \/ Vanish

FileSpec == Init /\ [][FileNext]_vars

(***************************************************************************)
(* The auth service on its own, with time passing.                         *)
(***************************************************************************)
AuthEmails == {"", "ann@x.com", "bob@x.com", "new@x.com"}
Login == \E email \in AuthEmails, pass \in {"", "Old#pass1", "New#pass2"} : LoginFind(email, pass)
LoggedIn == LoginSave
Google == \E email \in AuthEmails \ {""} : GoogleFind(email)
GoogleKnown == GoogleSave
GoogleNew == GoogleCreate
Refresh == \E rt \in RefreshTokens : RefreshToken(rt)
Forgot == \E email \in AuthEmails \ {""} : ForgotFind(email)
TokenSaved == ForgotSave
Reset == \E token \in 1..MaxTokens, pass \in {"New#pass2", "weak"} : ResetFind(token, pass)
PasswordSaved == ResetSave

AuthNext ==
    \/ Login \/ LoggedIn \/ Google \/ GoogleKnown \/ GoogleNew \/ Refresh
    \/ Forgot \/ TokenSaved \/ Reset \/ PasswordSaved \/ Tick

AuthSpec == Init /\ [][AuthNext]_vars

(***************************************************************************)
(* The order routes: requests with and without credentials.                *)
(***************************************************************************)
Put == \E p \in Slots, cred \in Credentials, id \in OrderIds, patch \in Patches :
           PutOrder(p, cred, id, patch)
Patch == \E p \in Slots, cred \in Credentials, id \in OrderIds, args \in CompletionArgs :
             PatchComplete(p, cred, id, args)
Destroy == \E cred \in Credentials, id \in OrderIds : DeleteRoute(cred, id)

RouteNext == Create \/ Put \/ Write \/ Patch \/ Send \/ Destroy

RouteSpec == Init /\ [][RouteNext]_vars

(***************************************************************************)
(* Stream connections of two users, each with threads of their own.        *)
(***************************************************************************)
OwnerRequests == [header : {""}, token : {"tokA", "tokB", "bad"}, lastId : {""}]
OwnerMessageData == { data \in MessageData : data.content # <<>> /\ data.approved = 1 }

PostAny == \E data \in OwnerMessageData : CreateMessage(data)
Join == \E k \in ConnIds, request \in OwnerRequests : Connect(k, request)

OwnerNext == PostAny \/ Respond \/ Save \/ Join \/ Hangup \/ Fire \/ Polled

OwnerSpec == Init /\ [][OwnerNext]_vars

(***************************************************************************)
(* getOrders among order requests.                                         *)
(***************************************************************************)
List == \E filters \in OrderFilters : ListStart(filters)
Page == \E q \in {"find", "count"} : ListQuery(q)

ListNext == Create \/ Update \/ Write \/ Delete \/ List \/ Page

ListSpec == Init /\ [][ListNext]_vars

(***************************************************************************)
(* The claims                                                              *)
(***************************************************************************)
\* An updateOrder call that has returned its order, with a status other than
\* the one it read.
StatusChanged(p) ==
    /\ req[p].op = "updateOrder"
    /\ req[p].pc = "done"
    /\ req[p].code = 200
    /\ req[p].ret.status # req[p].prev

\* The e-mail the rule of the specification names for (prior, new)
RuleKind(prior, new) ==
    CASE prior = "pending" /\ new = "processing" -> "confirmation"
      [] new = "completed" -> "completion"
      [] new = "failed" \/ (new = "processing" /\ prior # "pending") -> "statusUpdate"
      [] OTHER -> "no rule"

\* C1 as stated: an updateOrder call whose resulting status differs from the
\* status it read attempts exactly one e-mail, the one the rule names, for
\* every pair of distinct statuses.
C1_ExactlyOneEmailOnAnyChange ==
    \A p \in Slots : StatusChanged(p) =>
        /\ req[p].attempts = 1
        /\ req[p].kind = RuleKind(req[p].prev, req[p].ret.status)

\* C1 amended: the same for every new status other than pending; a change to
\* pending (from processing, completed or failed) attempts no e-mail.
C1_OneEmailByRuleUnlessToPending ==
    \A p \in Slots : StatusChanged(p) =>
        IF req[p].ret.status = "pending"
        THEN req[p].attempts = 0
        ELSE /\ req[p].attempts = 1
             /\ req[p].kind = RuleKind(req[p].prev, req[p].ret.status)

C1_Witness ==
    \E p \in Slots :
        /\ StatusChanged(p)
        /\ req[p].prev \in {"completed", "failed"}
        /\ req[p].ret.status = "processing"
        /\ req[p].kind = "statusUpdate"
        /\ req[p].attempts = 1

\* A user resolves for the input: some user has the supplied id (userId or
\* user_id) or the supplied e-mail (userEmail or user_id), lower-cased.
Resolves(data) ==
    \E u \in Users :
        \/ u._id.v = data.userId
        \/ u._id.v = data.user_id
        \/ data.userEmail # "" /\ u.user_email = ToLowerCase(data.userEmail)
        \/ data.user_id # "" /\ u.user_email = ToLowerCase(data.user_id)

Persisted == { i \in OrderIds : orders[i] # NoOrder }

\* C2 as stated: createOrder persists an order only if the amount is above 0
\* and a user resolves; with no user it fails with 404, with a user and an
\* amount of 0 or less with 400, and a failing call persists nothing.
C2_CreateFailsWith404Or400 ==
    lastCreate.code # 0 =>
        /\ lastCreate.code = 201 => OrderAmount(lastCreate.data) > 0 /\ Resolves(lastCreate.data)
        /\ ~Resolves(lastCreate.data) => lastCreate.code = 404
        /\ Resolves(lastCreate.data) /\ lastCreate.data.price <= 0 /\ lastCreate.data.amount <= 0
              => lastCreate.code = 400
        /\ lastCreate.code # 201 => lastCreate.id = 0

\* C3: every order createOrder persists has status pending, whatever status
\* the input carries.
C3_NewOrdersArePending ==
    /\ \A i \in Persisted : orders[i].status = "pending"
    /\ lastCreate.code = 201 =>
          /\ lastCreate.ret.status = "pending"
          /\ lastCreate.id \in Persisted

C3_Witness ==
    /\ lastCreate.code = 201
    /\ lastCreate.data.status = "completed"
    /\ orders[lastCreate.id].status = "pending"

\* C4 as stated: once the updateOrder calls on an order have all returned,
\* the payment-confirmation e-mails attempted for it are as many as the times
\* its persisted status went from pending to processing.
C4_ConfirmationsEqualPaidChanges ==
    (\A p \in Slots : req[p].pc \in {"idle", "done"} /\ req[p].op \in {"none", "updateOrder"}) =>
        \A i \in OrderIds : confirmAttempts[i] = paidChanges[i]

\* C5: a send that reports failure or throws leaves the call returning the
\* updated order (status 200, the document the update returned) and leaves
\* every persisted order as the write left it.
C5_SendFailureIsIsolated ==
    [][ \A p \in Slots :
          (req[p].pc = "email" /\ req'[p].pc = "done" /\ req'[p].outcome \in {"failed", "threw"})
          => /\ req'[p].code = 200
             /\ req'[p].ret = req[p].ret
             /\ req'[p].ret # NoOrder
             /\ orders' = orders ]_vars

C5_Witness ==
    \E p \in Slots :
        /\ req[p].op = "updateOrder"
        /\ req[p].pc = "done"
        /\ req[p].outcome = "threw"
        /\ req[p].code = 200
        /\ req[p].ret.status = "failed"
        /\ orders[req[p].id] = req[p].ret

\* C6: completeOrder on an existing order leaves it completed with the
\* message and link it was given and the time of the call, and attempts one
\* completion e-mail whatever the status was before; on an id of no order it
\* fails with 404, attempts no e-mail and changes no order.
C6_CompleteOrder ==
    /\ [](\A p \in Slots : req[p].op = "completeOrder" =>
            /\ req[p].code = 404 => req[p].pc = "done" /\ req[p].attempts = 0 /\ req[p].ret = NoOrder
            /\ req[p].code # 404 =>
                 /\ req[p].kind = "completion"
                 /\ req[p].attempts = IF req[p].pc = "done" THEN 1 ELSE 0
                 /\ req[p].pc = "done" => req[p].code = 200
                 /\ req[p].ret.status = "completed"
                 /\ req[p].ret.completedAt >= 0
                 /\ req[p].args.message # "none" => req[p].ret.completionMessage = req[p].args.message
                 /\ req[p].args.link # "none" => req[p].ret.completionLink = req[p].args.link)
    /\ [][ \A p \in Slots :
             (req'[p].op = "completeOrder" /\ req[p].pc \in {"idle", "done"} /\ req'[p] # req[p])
             => IF orders[req'[p].id] = NoOrder
                THEN req'[p].code = 404 /\ orders' = orders
                ELSE /\ orders'[req'[p].id] = req'[p].ret
                     /\ req'[p].ret.completedAt = now
                     /\ \A i \in OrderIds \ {req'[p].id} : orders'[i] = orders[i] ]_vars

C6_Witness ==
    \E p \in Slots :
        /\ req[p].op = "completeOrder"
        /\ req[p].pc = "done"
        /\ req[p].code = 200
        /\ req[p].prev \in {"completed", "failed"}
        /\ req[p].attempts = 1
        /\ req[p].args.link = "http://l"

\* The status changes the specification's state machine allows
LifecycleSteps ==
    { <<"pending", "processing">>, <<"processing", "completed">>,
      <<"pending", "failed">>, <<"processing", "failed">> }

\* C7 as stated: completed and failed are terminal, and every change of an
\* order's status is pending->processing, processing->completed,
\* pending->failed or processing->failed.
C7_OnlyLifecycleSteps ==
    [][ \A i \in OrderIds :
          (orders[i] # NoOrder /\ orders'[i] # NoOrder /\ orders'[i].status # orders[i].status)
          => <<orders[i].status, orders'[i].status>> \in LifecycleSteps ]_vars

\* C7 amended: no status is terminal in the code; a status changes only by an
\* updateOrder call writing the status its patch carries (any of the four, over
\* any prior status) or by a completeOrder call writing completed (over any
\* prior status), and it is always one of the four.
C7_StatusChangesOnlyAsRequested ==
    /\ [](\A i \in Persisted : orders[i].status \in Statuses)
    /\ [][ \A i \in OrderIds :
             (orders[i] # NoOrder /\ orders'[i] # NoOrder /\ orders'[i].status # orders[i].status)
             => \E p \in Slots :
                  /\ req'[p].id = i
                  /\ \/ /\ req[p].op = "updateOrder"
                        /\ req[p].pc = "write"
                        /\ req[p].id = i
                        /\ req[p].patch.status = orders'[i].status
                     \/ /\ req'[p].op = "completeOrder"
                        /\ req[p].pc \in {"idle", "done"}
                        /\ req'[p].pc = "email"
                        /\ orders'[i].status = "completed" ]_vars

C7_Witness ==
    \E p \in Slots :
        /\ StatusChanged(p)
        /\ req[p].prev \in {"completed", "failed"}
        /\ req[p].ret.status = "pending"
        /\ orders[req[p].id].status = "pending"

\* C8 as stated: every result getOrderStats returns has
\* total = pending + processing + completed + failed, also when other calls
\* write orders between its queries.
C8_TotalIsSumOfCounts ==
    (stats.pc = "done" /\ stats.code = 200) =>
        stats.res["total"] = stats.res["pending"] + stats.res["processing"]
                             + stats.res["completed"] + stats.res["failed"]

\* The orders of the user a getOrderStats call names (all orders when it names none)
OrdersOf(userId) == { i \in Persisted : userId = "" \/ orders[i].userId.v = userId }

\* C9 as stated: with no order call in flight, getOrderStats(userId) returns
\* for each status the number of the user's persisted orders in it, and as
\* totalRevenue the sum of their prices.
C9_StatsMatchPersistedOrders ==
    (stats.pc = "done" /\ stats.code = 200 /\ stats.quiet) =>
        /\ \A st \in Statuses :
              stats.res[st] = Cardinality({ i \in OrdersOf(stats.userId) : orders[i].status = st })
        /\ stats.res["total"] = Cardinality(OrdersOf(stats.userId))
        /\ stats.res["revenue"] = SumPrices(OrdersOf(stats.userId))

\* C10 as stated: under any interleaving of addMessageToThread calls on an
\* existing thread, once k calls have completed its content is k entries
\* longer than before the first, its approved flag is 1, and its date never
\* decreases from one completed call to the next.
C10_AppendsCountedAndDateMonotone ==
    /\ [](\A c \in CommentIds : (threads[c] # NoThread /\ addsDone[c] > 0) =>
             /\ Len(threads[c].content) = createdLen[c] + addsDone[c]
             /\ threads[c].approved = 1)
    /\ [][ \A c \in CommentIds :
             (addsDone[c] > 0 /\ addsDone'[c] = addsDone[c] + 1)
             => threads'[c].date >= threads[c].date ]_vars

\* s is t, or t cut short
IsPrefix(s, t) == Len(s) <= Len(t) /\ \A i \in 1..Len(s) : s[i] = t[i]

\* C11 as stated: while a thread exists its content only grows at the end:
\* from any state to the next, the content before is a prefix of the content
\* after, whatever createMessage, updateMessage or addMessageToThread did.
C11_ContentIsAppendOnly ==
    [][ \A c \in CommentIds :
          (threads[c] # NoThread /\ threads'[c] # NoThread)
          => IsPrefix(threads[c].content, threads'[c].content) ]_vars

\* C12: on a connection that was accepted the first event written is the
\* connected event and it is written once; on every connection, no entry is
\* pushed and no poll has written anything while nothing was written before.
C12_ConnectedComesFirst ==
    \A k \in ConnIds :
        /\ conns[k].state \in {"open", "closed"} => conns[k].first = "connected" /\ conns[k].acks = 1
        /\ conns[k].first # "connected" => conns[k].pushed = {} /\ conns[k].batch = <<>> /\ ~conns[k].late
        /\ conns[k].state = "rejected" => conns[k].acks = 0

C12_Witness ==
    \E k \in ConnIds :
        /\ conns[k].state = "open"
        /\ conns[k].first = "connected"
        /\ conns[k].pushed # {}

\* C13 as stated: after the close handler of a connection has run nothing is
\* written to it, also when the query of a poll was in flight at the close.
C13_NoWriteAfterClose ==
    \A k \in ConnIds : conns[k].state = "closed" => ~conns[k].late

\* What has been written to a connection
Written(conn) == <<conn.first, conn.acks, conn.errors, conn.batch, conn.pushed, conn.late>>

\* C13 amended: after the close handler has run the timer is cleared and no
\* poll starts; only a poll whose query was in flight at the close still
\* writes its events (to the ended response), and once it has returned
\* nothing is written to the connection again.
C13_OnlyPollInFlightWritesAfterClose ==
    /\ [](\A k \in ConnIds : conns[k].state = "closed" => ~conns[k].timer)
    /\ [][ \A k \in ConnIds :
             (conns[k].state = "closed" /\ conns[k].poll = "idle")
             => /\ conns'[k].poll = "idle"
                /\ Written(conns'[k]) = Written(conns[k]) ]_vars

C13_Witness ==
    \E k \in ConnIds :
        /\ conns[k].state = "closed"
        /\ conns[k].poll = "idle"
        /\ conns[k].late

\* C14: the timers that are set are those of the open connections; an
\* accepted connection has started one timer, a rejected request none; and a
\* poll starts only on an open connection.
C14_TimersAreOpenConnections ==
    /\ [](\A k \in ConnIds :
            /\ conns[k].timer <=> conns[k].state = "open"
            /\ conns[k].timersStarted = IF conns[k].state \in {"open", "closed"} THEN 1 ELSE 0)
    /\ [][ \A k \in ConnIds :
             (conns[k].poll = "idle" /\ conns'[k].poll = "query") => conns[k].state = "open" ]_vars

C14_Witness ==
    \E k, j \in ConnIds :
        /\ conns[k].state = "closed" /\ ~conns[k].timer /\ conns[k].poll = "idle"
        /\ conns[j].state = "open" /\ conns[j].timer /\ conns[j].poll = "query"

\* The request carries a valid access token in its header or in its query
HasValidToken(request) == request.header = "tokA" \/ request.token = "tokA"

\* C15 as stated: a request with a valid token in the Authorization header or
\* in the token query parameter is accepted and gets the connected event; a
\* request with a valid token in neither gets one Unauthorized error event
\* and its connection is ended.
C15_HeaderOrQueryToken ==
    \A k \in ConnIds : conns[k].state # "none" =>
        IF HasValidToken(conns[k].request)
        THEN conns[k].state \in {"open", "closed"} /\ conns[k].acks = 1
        ELSE /\ conns[k].state = "rejected"
             /\ conns[k].errors = 1
             /\ conns[k].first = "error"
             /\ conns[k].pushed = {}

\* The entries of the user's threads, by thread and position, and the event
\* of one
EntryRefs(userEmail) ==
    { r \in CommentIds \X (1..MaxOps) :
        /\ threads[r[1]] # NoThread
        /\ threads[r[1]].userEmail = userEmail
        /\ r[2] <= Len(threads[r[1]].content) }
EventOf(r) ==
    [text |-> threads[r[1]].content[r[2]].text,
     time |-> threads[r[1]].content[r[2]].time,
     commentId |-> r[1]]

\* C16: a poll whose query succeeds on an open connection pushes, each as
\* one event, all entries of the user's threads when the connection gave no
\* lastId, and when it gave one exactly the entries whose time is later than
\* the time of the poll minus 10 s.
C16_PollPushesSelectedEntries ==
    [][ \A k \in ConnIds :
          (conns[k].state = "open" /\ conns[k].poll = "query"
              /\ conns'[k].poll = "idle" /\ conns'[k].pollOk)
          => LET refs == { r \in EntryRefs(conns[k].user) :
                             ~conns[k].cursor \/ EventOf(r).time > clock - Window }
                 batch == conns'[k].batch
             IN  /\ Len(batch) = Cardinality(refs)
                 /\ \A r \in refs :
                      Cardinality({ j \in 1..Len(batch) : batch[j] = EventOf(r) })
                        = Cardinality({ q \in refs : EventOf(q) = EventOf(r) }) ]_vars

C16_Witness ==
    \E k \in ConnIds :
        /\ conns[k].state = "open"
        /\ conns[k].cursor
        /\ conns[k].pollOk
        /\ conns[k].poll = "idle"
        /\ Len(conns[k].batch) = 1
        /\ Cardinality(EntryRefs(conns[k].user)) = 2

\* The events a reply can become
ReplyEvents == [text : {"reply"}, time : 0..MaxTime, commentId : CommentIds]

\* C17 as stated: a reply that is saved to a thread of the connection's user
\* while the connection is open is eventually pushed on it, unless the
\* connection is closed first.
C17_EveryReplyIsPushed ==
    \A e \in ReplyEvents :
        ( /\ conns[1].state = "open"
          /\ mreq[1].pc = "save"
          /\ mreq[1].commentId = e.commentId
          /\ mreq[1].entry = [text |-> e.text, time |-> e.time]
          /\ threads[e.commentId] # NoThread
          /\ threads[e.commentId].userEmail = conns[1].user )
        ~> (conns[1].state # "open" \/ e \in conns[1].pushed)

(***************************************************************************)
(* C18: approved and rejected are terminal and the only status changes of  *)
(* a site submission are pending -> approved and pending -> rejected: no   *)
(* step changes the persisted status of a submission that is approved or   *)
(* rejected.                                                               *)
(***************************************************************************)
C18_ApprovedRejectedTerminal ==
    [][\A id \in SubIds :
          (subs[id] # NoSub /\ subs'[id] # NoSub /\ subs'[id].status # subs[id].status)
              => /\ subs[id].status = "pending"
                 /\ subs'[id].status \in {"approved", "rejected"}]_vars

(***************************************************************************)
(* C19: a completed updateSiteSubmission call has attempted exactly one    *)
(* approval e-mail when its patch changed the status to approved, exactly  *)
(* one rejection e-mail when it changed the status to rejected, and none   *)
(* when the patch carries no status or the status the call found; the      *)
(* e-mail carries the submission's websites and the patch's admin notes;   *)
(* reviewedAt is set after the call; and the send, whatever its outcome,   *)
(* leaves the answer a success and the persisted submissions as they were. *)
(***************************************************************************)
C19_ExpectedMail(old, new) ==
    CASE new = "approved" /\ old # "approved" -> "approval"
      [] new = "rejected" /\ old # "rejected" -> "rejection"
      [] OTHER -> "none"

C19_UpdateEmailRule ==
    /\ [](\A p \in Slots :
            (sreq[p].pc = "done" /\ sreq[p].code # 404) =>
               /\ sreq[p].code = 200
               /\ sreq[p].kind = C19_ExpectedMail(sreq[p].prev, sreq[p].patch.status)
               /\ sreq[p].attempts = IF sreq[p].kind = "none" THEN 0 ELSE 1
               /\ (sreq[p].patch.status \in {"none", sreq[p].prev} => sreq[p].attempts = 0)
               /\ sreq[p].kind # "none" =>
                     /\ sreq[p].mail.websites = subs[sreq[p].id].websites
                     /\ sreq[p].mail.adminNotes = sreq[p].patch.adminNotes
               /\ sreq[p].ret.reviewedAt >= 1
               /\ subs[sreq[p].id].reviewedAt >= 1)
    /\ [][\A p \in Slots :
            (sreq[p].pc = "email" /\ sreq'[p].pc = "done") =>
               /\ subs' = subs
               /\ sreq'[p].ret = sreq[p].ret
               /\ sreq'[p].code = 200]_vars

C19_Witness ==
    \E p \in Slots :
        /\ sreq[p].pc = "done"
        /\ sreq[p].kind = "approval"
        /\ sreq[p].outcome = "threw"
        /\ sreq[p].mail = [websites |-> <<"a.com", "b.com">>, adminNotes |-> "looks good"]
        /\ \E q \in Slots :
              /\ sreq[q].pc = "done"
              /\ sreq[q].code = 200
              /\ sreq[q].patch.status = "approved"
              /\ sreq[q].prev = "approved"
              /\ sreq[q].attempts = 0

(***************************************************************************)
(* C20: every site submission created through POST /site-submissions is    *)
(* stored with status pending whatever the body contains; exactly one      *)
(* submission-received e-mail is attempted, after the record is saved; and *)
(* a failing send leaves the creation a success and the record in place.   *)
(***************************************************************************)
C20_CreatedPendingOneReceipt ==
    /\ [](/\ lastSubmit.pc = "email" =>
               /\ subs[lastSubmit.id] # NoSub
               /\ lastSubmit.attempts = 0
          /\ lastSubmit.pc = "done" =>
               IF lastSubmit.id # 0
               THEN /\ lastSubmit.code = 201
                    /\ lastSubmit.attempts = 1
                    /\ lastSubmit.ret.status = "pending"
                    /\ subs[lastSubmit.id] # NoSub
               ELSE /\ lastSubmit.code = 400
                    /\ lastSubmit.attempts = 0)
    /\ [][/\ \A id \in SubIds :
               (subs[id] = NoSub /\ subs'[id] # NoSub) => subs'[id].status = "pending"
          /\ (lastSubmit.pc = "email" /\ lastSubmit'.pc = "done") => subs' = subs]_vars

C20_Witness ==
    /\ lastSubmit.pc = "done"
    /\ lastSubmit.code = 201
    /\ lastSubmit.body.status = "approved"
    /\ lastSubmit.outcome = "threw"
    /\ subs[lastSubmit.id] # NoSub

(***************************************************************************)
(* C21: deleteSiteSubmission on a submission with a file attempts the file *)
(* deletion, once, before it deletes the record, and deletes the record    *)
(* whatever the file deletion's outcome; on an id of no submission it      *)
(* answers NotFound, attempts no file deletion and deletes nothing.        *)
(***************************************************************************)
C21_FileThenRecord ==
    /\ [](/\ del.pc = "file" => (del.fileAttempts = 0 /\ del.hadFile)
          /\ del.pc = "remove" => del.fileAttempts = (IF del.hadFile THEN 1 ELSE 0)
          /\ del.fileAttempts > 0 => del.pc \in {"remove", "done"}
          /\ del.pc = "done" =>
               IF del.code = 404
               THEN del.fileAttempts = 0
               ELSE /\ del.code = 204
                    /\ subs[del.id] = NoSub
                    /\ del.fileAttempts = (IF del.hadFile THEN 1 ELSE 0))
    /\ [][/\ (del' # del /\ del'.pc = "done" /\ del'.code = 404) => subs' = subs
          /\ (del.pc = "file" /\ del' # del) => subs' = subs
          /\ (\E id \in SubIds : subs[id] # NoSub /\ subs'[id] = NoSub)
                => (del.pc = "remove" /\ del'.pc = "done"
                    /\ (subs[del.id].hasFile => del.fileAttempts = 1))]_vars

C21_Witness ==
    /\ del.pc = "done"
    /\ del.code = 204
    /\ del.hadFile
    /\ del.outcome = "failed"
    /\ subs[del.id] = NoSub

(***************************************************************************)
(* C22: createPayPalPayment rejects with a typed error of status 401 and   *)
(* the credential message whenever the gateway reports HTTP 401 or the     *)
(* error invalid_client; on every other gateway error it rejects with a    *)
(* typed error carrying the gateway's message and its status code (500     *)
(* when it has none); and it resolves, with success and the approval URL,  *)
(* only when the gateway's answer has an approval_url link.                *)
(***************************************************************************)
C22_PayPalCreateErrors ==
    (pay.pc = "done" /\ pay.op = "createPayPalPayment" /\ pay.asked) =>
        LET gw == pay.gw
            r == pay.result
            credential == gw.httpStatusCode = 401 \/ gw.error = "invalid_client"
        IN  /\ (gw.isError /\ credential) =>
                  /\ r.kind = "rejected" /\ r.typed /\ r.status = 401
                  /\ Len(r.message) = 3
                  /\ r.message[1] = "PayPal authentication failed: "
            /\ (gw.isError /\ ~credential) =>
                  /\ r.kind = "rejected" /\ r.typed
                  /\ Len(r.message) = 1
                  /\ gw.message # "" => r.message = <<gw.message>>
                  /\ r.status = (IF gw.httpStatusCode = 0 THEN 500 ELSE gw.httpStatusCode)
            /\ r.kind = "resolved" <=>
                  (~gw.isError /\ gw.present /\ gw.hasLinks /\ "approval_url" \in gw.links)
            /\ r.kind = "resolved" => (r.success /\ r.approvalUrl)
            /\ r.kind # "resolved" => (r.kind = "rejected" /\ r.typed)

C22_Witness ==
    /\ pay.pc = "done"
    /\ pay.op = "createPayPalPayment"
    /\ pay.gw.isError
    /\ pay.gw.httpStatusCode = 400
    /\ pay.gw.error = "invalid_client"
    /\ pay.result.status = 401

(***************************************************************************)
(* C23: every error a payment gateway returns during one of the four       *)
(* payment calls reaches the caller as a typed application error, never as *)
(* a normal return value; executePayPalPayment resolves only when the      *)
(* gateway reports the state approved.                                     *)
(***************************************************************************)
C23_GatewayErrorsAreTyped ==
    (pay.pc = "done" /\ pay.asked) =>
        /\ pay.gw.isError => (pay.result.kind = "rejected" /\ pay.result.typed)
        /\ (pay.op = "executePayPalPayment" /\ pay.result.kind = "resolved")
              => (~pay.gw.isError /\ pay.gw.state = "approved")

(***************************************************************************)
(* C24: GET /files/:filePath never touches a file outside the upload root: *)
(* a filePath that contains ".." or is absolute is answered 400 before any *)
(* file-system access; a path that the existence check does not find is    *)
(* answered 404 and one that is no regular file 400; and in none of these  *)
(* cases is file content sent.                                             *)
(***************************************************************************)
C24_NoReadOutsideRoot ==
    /\ [](/\ ~freq.outside
          /\ freq.sent => (freq.code = 200 /\ freq.sentFrom.up = 0 /\ freq.pc = "done")
          /\ freq.code \in {400, 404, 500} => ~freq.sent
          /\ (freq.pc # "idle"
                /\ (freq.path.absolute
                      \/ \E i \in 1..Len(freq.path.segs) : freq.path.segs[i] \in DotDotSegments))
               => (freq.pc = "done" /\ freq.code = 400 /\ freq.accesses = 0 /\ ~freq.sent))
    /\ [][/\ (freq.pc = "access" /\ freq' # freq /\ ~ExistsAt(freq.full))
                => (freq'.pc = "done" /\ freq'.code = 404)
          /\ (freq.pc = "stat" /\ freq' # freq /\ IsDirAt(freq.full))
                => (freq'.pc = "done" /\ freq'.code = 400)]_vars

C24_Witness ==
    /\ freq.pc = "done"
    /\ freq.path = [absolute |-> FALSE, segs |-> <<"..", "secret">>]
    /\ freq.code = 400
    /\ freq.accesses = 0

(***************************************************************************)
(* C25: no login, googleAuth or refreshToken call returns tokens for a     *)
(* user whose account status is not active (the call fails as              *)
(* Unauthorized), and a failed login leaves the last-login timestamps as   *)
(* they were.                                                              *)
(***************************************************************************)
C25_TokensOnlyForActiveUsers ==
    /\ []((areq.pc = "done" /\ areq.op \in {"login", "googleAuth", "refreshToken"}) =>
            /\ areq.issued # 0 => accounts[areq.issued].user_status = "active"
            /\ (areq.uid # 0 /\ accounts[areq.uid] # NoAccount
                  /\ accounts[areq.uid].user_status # "active") => areq.code = 401)
    /\ [][(areq'.op = "login" /\ areq'.pc = "done" /\ areq'.code # 200)
            => accounts' = accounts]_vars

(***************************************************************************)
(* C30: a password-reset token is single-use and time-limited.             *)
(* resetPassword changes a password only for the user whose stored reset   *)
(* token equals the supplied one and had not expired when it was looked    *)
(* up; a successful reset clears the stored token and expiry, so a later   *)
(* resetPassword with the same token answers 400 and changes nothing; and  *)
(* a reset refused for a weak password leaves token and password as they   *)
(* were.                                                                   *)
(***************************************************************************)
C30_ResetTokenSingleUse ==
    /\ []((areq.op = "resetPassword" /\ areq.pc = "done" /\ areq.code = 200) =>
            /\ accounts[areq.uid].passwordResetToken = 0
            /\ accounts[areq.uid].passwordResetExpires = 0
            /\ accounts[areq.uid].user_pass = Hash(areq.pass)
            /\ areq.token \in consumed)
    /\ [][/\ (\E u \in AccountIds : /\ accounts[u] # NoAccount
                                    /\ accounts'[u].user_pass # accounts[u].user_pass)
               => (areq.op = "resetPassword" /\ areq.pc = "save" /\ areq'.code = 200)
          /\ (areq'.op = "resetPassword" /\ areq' # areq /\ areq.pc # "save") =>
               /\ accounts' = accounts
               /\ areq'.pc \in {"save", "done"}
               /\ areq'.pc = "done" => areq'.code = 400
               /\ areq'.pc = "save" =>
                     /\ areq'.pass # "weak"
                     /\ accounts[areq'.uid].passwordResetToken = areq'.token
                     /\ accounts[areq'.uid].passwordResetExpires > clock
               /\ (areq'.token \in consumed \/ areq'.pass = "weak") => areq'.pc = "done"]_vars

C30_Witness ==
    /\ areq.op = "resetPassword"
    /\ areq.pc = "done"
    /\ areq.code = 400
    /\ areq.pass = "New#pass2"
    /\ areq.token \in consumed
    /\ clock = Window
    /\ \E u \in AccountIds : accounts[u] # NoAccount /\ accounts[u].user_pass = Hash("New#pass2")

(***************************************************************************)
(* C26: DELETE /orders/:id and PATCH /orders/:id/complete take effect only *)
(* for a request authenticated with role admin; a request without          *)
(* credentials or with role user is refused before the service is called:  *)
(* no order changes and no e-mail is attempted.                            *)
(***************************************************************************)
C26_AdminOnlyRoutes ==
    /\ [](\A p \in Slots : req[p].op = "completeOrder" => gate[p].role = "admin")
    /\ [][/\ (\E id \in OrderIds : orders[id] # NoOrder /\ orders'[id] = NoOrder)
               => (http'.route = "DELETE /:id" /\ http'.code = 0 /\ http'.cred.role = "admin")
          /\ (http' # http /\ http'.route \in {"DELETE /:id", "PATCH /:id/complete"}
                /\ http'.cred.role # "admin")
               => /\ http'.code = (IF http'.cred = NoCred THEN 401 ELSE 403)
                  /\ orders' = orders
                  /\ req' = req
                  /\ confirmAttempts' = confirmAttempts]_vars

C26_Witness ==
    /\ http.route = "PATCH /:id/complete"
    /\ http.cred = [userId |-> "id1", role |-> "user"]
    /\ http.code = 403
    /\ \E id \in OrderIds : orders[id] # NoOrder /\ orders[id].status = "pending"

(***************************************************************************)
(* C29: a request with role user changes, through PUT /orders/:id, only    *)
(* orders of that user: the write of such a request leaves every order of  *)
(* another user as it was, and the request attempts no e-mail about        *)
(* another user's order.                                                   *)
(***************************************************************************)
C29_UsersUpdateOwnOrdersOnly ==
    /\ [](\A p \in Slots :
            (req[p].op = "updateOrder" /\ gate[p].role = "user" /\ req[p].attempts > 0)
               => req[p].ret.userId = Oid(gate[p].userId))
    /\ [][\A p \in Slots :
            (req[p].op = "updateOrder" /\ gate[p].role = "user"
               /\ req[p].pc = "write" /\ req'[p].pc # "write")
               => \A id \in OrderIds :
                     (orders[id] # NoOrder /\ orders[id].userId # Oid(gate[p].userId))
                        => orders'[id] = orders[id]]_vars

(***************************************************************************)
(* C27: with no write in flight, a getOrders call with page >= 1 and       *)
(* limit >= 1 returns total = the number of orders matching the filters,   *)
(* totalPages = ceil(total / limit) and the orders at positions            *)
(* (page-1)*limit+1 .. page*limit of the matching orders, newest first;    *)
(* the pages 1..totalPages hold every matching order exactly once and any  *)
(* later page is empty.                                                    *)
(***************************************************************************)
C27_Sorted(filters) == NewestFirst(MatchingIds(filters))

RECURSIVE C27_Pages(_, _, _)
C27_Pages(filters, limit, n) ==
    IF n = 0 THEN <<>> ELSE C27_Pages(filters, limit, n - 1) \o FindPage(filters, n, limit)

C28_OwnEntry(k, msg) ==
    /\ threads[msg.commentId] # NoThread
    /\ threads[msg.commentId].userEmail = QueryTokenUser(conns[k].request.token)
    /\ \E i \in 1..Len(threads[msg.commentId].content) :
          /\ threads[msg.commentId].content[i].text = msg.text
          /\ threads[msg.commentId].content[i].time = msg.time

C28_OnlyOwnThreadsPushed ==
    \A k \in ConnIds :
        /\ \A msg \in conns[k].pushed : C28_OwnEntry(k, msg)
        /\ \A i \in 1..Len(conns[k].batch) : C28_OwnEntry(k, conns[k].batch[i])
        /\ conns[k].state = "rejected" => conns[k].pushed = {} /\ conns[k].batch = <<>>

C28_Witness ==
    /\ conns[1].state = "open"
    /\ conns[1].user = "bob@x.com"
    /\ conns[1].pushed # {}
    /\ \E c \in CommentIds :
          /\ threads[c] # NoThread
          /\ threads[c].userEmail = "ann@x.com"
          /\ threads[c].content # <<>>

====
